---------------------------- MODULE Spec2Model ----------------------------
(***************************************************************************)
(* Model of the TFCcalc recipe-resolution engine (package calculator) and  *)
(* of the catalog it reads (package data).                                 *)
(*                                                                         *)
(* The repository holds two variants of package calculator:               *)
(*   - src/unnamed/part_000       (the variant calculator_test.go tests;  *)
(*                                 modelled under the source's names)     *)
(*   - src/calculator/calculator.go (modelled under the source's names    *)
(*                                 with the suffix V1)                    *)
(*                                                                         *)
(* float64 values are modelled as exact rationals <<n, d>> in lowest      *)
(* terms with d > 0, so that tolerances (0.001, 0.01) and products        *)
(* amount * pct / 100 are computed, not assumed.  A Go map is a record    *)
(* [nil, kv]: nil tells a nil map from an empty one, kv is the function   *)
(* from its keys to its values.                                           *)
(***************************************************************************)
EXTENDS Integers, Sequences, FiniteSets, TLC

VARIABLES percMap, ret, alloyCache, alloyCacheLock, goroutine, db, initOnce, initErr

vars == <<percMap, ret, alloyCache, alloyCacheLock, goroutine, db, initOnce, initErr>>

\* the state of the catalog of src/data/db.go
dbVars == <<alloyCache, alloyCacheLock, goroutine, db, initOnce, initErr>>

\* db and initOnce of src/data/db.go, and what the last call of InitDB returned
handleVars == <<db, initOnce, initErr>>

\* the state of the callers of the engine
engineVars == <<percMap, ret>>

-----------------------------------------------------------------------------
(* float64 arithmetic, exact *)

Abs(x) == IF x < 0 THEN -x ELSE x

\* Bind(v, Body) is Body(v) with v computed once, before Body: the value of
\* an expression of the code that the following statements read
Bind(v, Body(_)) == CHOOSE r \in {Body(x) : x \in {v}} : TRUE

RECURSIVE GCD(_, _)
GCD(a, b) == IF b = 0 THEN a ELSE Bind(a % b, LAMBDA m : GCD(b, m))

Rat(n, d) == LET g == GCD(Abs(n), d) IN <<n \div g, d \div g>>

F(n) == <<n, 1>>

RAdd(x, y) ==
    LET g == GCD(x[2], y[2])
    IN  Rat(x[1] * (y[2] \div g) + y[1] * (x[2] \div g), x[2] * (y[2] \div g))

RNeg(x) == <<-x[1], x[2]>>

\* A float64 of 2^53 and above: <<n, d, h>> is h x 2^53 + n / d, for h >= 1
\* and n / d >= 0.  The fractions <<n, d>> stand for values the 53 bits of
\* the significand hold exactly; from 2^53 on the significand holds every
\* second integer only, from 2^54 on every fourth, and a sum is rounded to
\* the nearest of them, to the one with the even significand on a tie.
Big(n) == <<n, 1, 1>>

High(x) == IF Len(x) = 3 THEN x[3] ELSE 0

Low(x) == <<x[1], x[2]>>

\* the distance between two neighbouring float64 in [h x 2^53, (h + 1) x 2^53)
Spacing(h) == IF h = 1 THEN 2 ELSE IF h < 4 THEN 4 ELSE 8

\* h x 2^53 + r rounded to float64
RoundBig(h, r) ==
    LET s    == Spacing(h)
        k    == r[1] \div (r[2] * s)
        rem  == RAdd(r, F(-(k * s)))
        half == <<s, 2>>
        up   == rem[1] * half[2] > half[1] * rem[2]
                  \/ (rem[1] * half[2] = half[1] * rem[2] /\ k % 2 = 1)
    IN  <<IF up THEN (k + 1) * s ELSE k * s, 1, h>>

\* a sum without rounding, whatever its size
ExactAdd(x, y) ==
    IF High(x) + High(y) = 0 THEN RAdd(Low(x), Low(y))
    ELSE LET r == RAdd(Low(x), Low(y)) IN <<r[1], r[2], High(x) + High(y)>>

\* x + y in float64
FAdd(x, y) ==
    IF High(x) + High(y) = 0 THEN RAdd(x, y)
    ELSE RoundBig(High(x) + High(y), RAdd(Low(x), Low(y)))

RSub(x, y) == RAdd(x, RNeg(y))

RMul(x, y) ==
    LET g1 == GCD(Abs(x[1]), y[2])
        g2 == GCD(Abs(y[1]), x[2])
    IN  <<(x[1] \div g1) * (y[1] \div g2), (x[2] \div g2) * (y[2] \div g1)>>

\* x / y for y > 0
RDiv(x, y) == RMul(x, <<y[2], y[1]>>)

RLess(x, y) == x[1] * y[2] < y[1] * x[2]

RLeq(x, y) == x[1] * y[2] <= y[1] * x[2]

RAbs(x) == <<Abs(x[1]), x[2]>>

Zero == F(0)

Hundred == F(100)

\* eps / epsilon of ValidatePercentages
eps == <<1, 1000>>

\* the tolerance on the sum of percentages (0.01)
SumTolerance == <<1, 100>>

\* a threshold ten times smaller
NegligibleTenth == <<1, 10000>>

\* the negligible-quantity threshold (0.001 mB)

Negligible == <<1, 1000>>

\* the recursion bound of getBaseMaterialBreakdown
MaxLevel == 20

-----------------------------------------------------------------------------
(* Go maps *)

EmptyKV == [k \in {} |-> Zero]

\* a nil map
NilMap == [nil |-> TRUE, kv |-> EmptyKV]

\* make(map[...]...)
MakeMap == [nil |-> FALSE, kv |-> EmptyKV]

\* a map literal
MapOf(f) == [nil |-> FALSE, kv |-> f]

\* len(m)
Len0(m) == Cardinality(DOMAIN m.kv)

\* _, found := m[k]
Has(m, k) == k \in DOMAIN m.kv

\* m[k], the zero value when k is absent
Get(m, k) == IF k \in DOMAIN m.kv THEN m.kv[k] ELSE Zero

\* an assignment that stores v under every key of the map
PutAll(m, k, v) == [nil |-> FALSE, kv |-> [x \in (DOMAIN m.kv) \cup {k} |-> v]]

\* m[k] = v on a non-nil map
Put(m, k, v) ==
    [nil |-> FALSE, kv |-> [x \in (DOMAIN m.kv) \cup {k} |-> IF x = k THEN v ELSE m.kv[x]]]

Keys(m) == DOMAIN m.kv

-----------------------------------------------------------------------------
(* package data: the catalog *)

\* sql.NullString
Null == [Valid |-> FALSE, String |-> ""]

Str(s) == [Valid |-> TRUE, String |-> s]

\* data.IngredientInfo with whole-percent bounds
Ing(id, min, max) == [IngredientID |-> id, Min |-> F(min), Max |-> F(max)]

\* data.AlloyInfo
Row(type, ings, raw, extra) ==
    [Type |-> type, Ingredients |-> ings, RawFormID |-> raw, ExtraIngredientID |-> extra]

Base == Row("base", <<>>, Null, Null)

\* The rows of the alloys table.  The recipes of the application are those
\* of TfcAlloys; the rows after them are rows the schema equally admits and
\* that the engine has to defend against.  Within one recipe the ingredient
\* identifiers are distinct.
TfcAlloys ==
    [copper   |-> Base, zinc |-> Base, bismuth |-> Base, silver |-> Base,
     gold     |-> Base, nickel |-> Base, pig_iron |-> Base,
     steel    |-> Row("processed", <<Ing("pig_iron", 100, 100)>>, Null, Null),
     bismuth_bronze |-> Row("alloy",
        <<Ing("zinc", 20, 30), Ing("copper", 50, 65), Ing("bismuth", 10, 20)>>, Null, Null),
     black_bronze |-> Row("alloy",
        <<Ing("copper", 50, 70), Ing("silver", 10, 25), Ing("gold", 10, 25)>>, Null, Null),
     brass |-> Row("alloy", <<Ing("copper", 88, 92), Ing("zinc", 8, 12)>>, Null, Null),
     rose_gold |-> Row("alloy", <<Ing("copper", 15, 30), Ing("gold", 70, 85)>>, Null, Null),
     sterling_silver |-> Row("alloy",
        <<Ing("copper", 20, 40), Ing("silver", 60, 80)>>, Null, Null),
     raw_black_steel |-> Row("raw_steel",
        <<Ing("steel", 50, 70), Ing("nickel", 15, 25), Ing("black_bronze", 15, 25)>>,
        Null, Null),
     raw_blue_steel |-> Row("raw_steel",
        <<Ing("black_steel", 50, 55), Ing("steel", 20, 25),
          Ing("bismuth_bronze", 10, 15), Ing("sterling_silver", 10, 15)>>, Null, Null),
     raw_red_steel |-> Row("raw_steel",
        <<Ing("black_steel", 50, 55), Ing("steel", 20, 25),
          Ing("brass", 10, 15), Ing("rose_gold", 10, 15)>>, Null, Null),
     black_steel |-> Row("final_steel", <<>>, Str("raw_black_steel"), Str("pig_iron")),
     blue_steel  |-> Row("final_steel", <<>>, Str("raw_blue_steel"), Str("black_steel")),
     red_steel   |-> Row("final_steel", <<>>, Str("raw_red_steel"), Str("black_steel")),
     \* midpoints sum to 100.005: within the tolerance, so never adjusted
     tight |-> Row("alloy",
        <<[IngredientID |-> "copper", Min |-> F(50), Max |-> <<5001, 100>>],
          Ing("zinc", 50, 50)>>, Null, Null),
     \* midpoints sum to 10: the first ingredient is adjusted to 95
     skewed |-> Row("alloy", <<Ing("copper", 0, 10), Ing("zinc", 0, 10)>>, Null, Null),
     \* midpoints sum to 155: the first ingredient is adjusted to -50
     surplus |-> Row("alloy",
        <<Ing("copper", 0, 10), Ing("zinc", 90, 100), Ing("nickel", 50, 60)>>, Null, Null),
     \* a final steel whose two components decompose to the same base
     twin_steel |-> Row("final_steel", <<>>, Str("brass"), Str("copper")),
     \* a final steel without its extra ingredient
     half_steel |-> Row("final_steel", <<>>, Str("brass"), Null),
     \* an alloy that lists an identifier the catalog does not hold
     ghost_alloy |-> Row("alloy", <<Ing("copper", 50, 50), Ing("ghost", 50, 50)>>, Null, Null),
     \* an ingredient cycle: each of the two is the sole ingredient of the other
     loop_a |-> Row("alloy", <<Ing("loop_b", 100, 100)>>, Null, Null),
     loop_b |-> Row("alloy", <<Ing("loop_a", 100, 100)>>, Null, Null),
     \* a component cycle: a final steel that is its own raw form
     ring_steel |-> Row("final_steel", <<>>, Str("ring_steel"), Str("pig_iron")),
     \* a type the engine does not handle
     gem |-> Row("gem", <<>>, Null, Null)]

IDs == DOMAIN TfcAlloys

\* an identifier no row has
UnknownIDs == {"nonexistent"}

\* data.GetAlloyByID: (AlloyInfo, bool)
GetAlloyByID(id) ==
    IF id \in IDs THEN [ok |-> TRUE,  alloy |-> TfcAlloys[id]]
                  ELSE [ok |-> FALSE, alloy |-> Row("", <<>>, Null, Null)]

-----------------------------------------------------------------------------
(* package calculator, src/unnamed/part_000 *)

\* a nil error
NoErr == "nil"

\* (map, error) results; an error is modelled by its innermost cause, the
\* prefixes that fmt.Errorf("...: %w") wraps around it are left out (but for
\* "invalid user percentages", which names the top-level check that failed)
Ok(m) == [val |-> m, err |-> NoErr]

Fail(e) == [val |-> NilMap, err |-> e]

\* a test of the sum without tolerance
SumOffAtAll(total) == total # Hundred

\* math.Abs(total-100.0) > 0.01
SumOff(total) == RLess(SumTolerance, RAbs(RSub(total, Hundred)))

\* the range test without eps
OutOfRangeStrict(pct, ingData) == RLess(pct, ingData.Min) \/ RLess(ingData.Max, pct)

\* the range test with eps taken off the range in place of added to it
OutOfRangeInside(pct, ingData) ==
    RLess(pct, RAdd(ingData.Min, eps)) \/ RLess(RSub(ingData.Max, eps), pct)

\* pct < ingData.Min-eps || pct > ingData.Max+eps
OutOfRange(pct, ingData) ==
    RLess(pct, RSub(ingData.Min, eps)) \/ RLess(RAdd(ingData.Max, eps), pct)

\* the required quantity with the percentage taken as a factor
RequiredMBAsFactor(amountMB, pct) == RMul(amountMB, pct)

\* no material is taken for plain steel
IsSteelNever(targetID) == FALSE

\* targetID == "steel"
IsSteel(targetID) == targetID = "steel"

\* the depth guard taken two levels late
TooDeepLate(level) == level > MaxLevel + 2

\* the depth guard taken one level early
TooDeepAtBound(level) == level >= MaxLevel

\* level > 20
TooDeep(level) == level > MaxLevel

\* requiredMB := amountMB * (pct / 100.0)
RequiredMB(amountMB, pct) == RMul(amountMB, RDiv(pct, Hundred))

\* amountMB without the conversion of Ingots
AmountMBUnconverted(amount, mode) == amount

\* amountMB of CalculateRequirements: amount * 100.0 in "Ingots" mode
AmountMB(amount, mode) == IF mode = "Ingots" THEN RMul(amount, F(100)) ELSE amount

\* the loop of GetDefaultPercentages: acc = [percentages, total]
RECURSIVE MidpointLoop(_, _, _)
MidpointLoop(ings, i, acc) ==
    IF i > Len(ings) THEN acc
    ELSE Bind(RDiv(RAdd(ings[i].Min, ings[i].Max), F(2)), LAMBDA mid :
         Bind([percentages |-> Put(acc.percentages, ings[i].IngredientID, mid),
               total       |-> RAdd(acc.total, mid)], LAMBDA next :
         MidpointLoop(ings, i + 1, next)))

\* the midpoints, with no adjustment of the first ingredient
GetDefaultPercentagesUnadjusted(alloyID) ==
    LET g == GetAlloyByID(alloyID)
    IN  IF ~g.ok THEN Fail("not found")
        ELSE Ok(MidpointLoop(g.alloy.Ingredients, 1,
                             [percentages |-> MakeMap, total |-> Zero]).percentages)

GetDefaultPercentages(alloyID) ==
    LET g       == GetAlloyByID(alloyID)
        ings    == g.alloy.Ingredients
        firstID == ings[1].IngredientID
    IN  IF ~g.ok THEN Fail("not found")
        ELSE IF Len(ings) = 0 THEN Ok(MakeMap)
        ELSE Bind(MidpointLoop(ings, 1, [percentages |-> MakeMap, total |-> Zero]),
             LAMBDA acc :
             IF SumOff(acc.total) /\ Len(ings) > 0
             THEN IF Has(acc.percentages, firstID)
                  THEN Ok(Put(acc.percentages, firstID,
                              RAdd(Get(acc.percentages, firstID),
                                   RSub(Hundred, acc.total))))
                  ELSE Fail("internal error")
             ELSE Ok(acc.percentages))

\* the loop of ValidatePercentages: [ok, err, total]
RECURSIVE ValidateLoop(_, _, _, _)
ValidateLoop(ings, i, percentages, total) ==
    IF i > Len(ings) THEN [ok |-> TRUE, err |-> NoErr, total |-> total]
    ELSE LET ingData == ings[i]
             pct     == Get(percentages, ingData.IngredientID)
         IN  IF ~Has(percentages, ingData.IngredientID)
             THEN [ok |-> FALSE, err |-> "percentage missing", total |-> total]
             ELSE IF OutOfRange(pct, ingData)
             THEN [ok |-> FALSE, err |-> "outside range", total |-> total]
             ELSE Bind(RAdd(total, pct), LAMBDA t :
                  ValidateLoop(ings, i + 1, percentages, t))

\* a validator that accepts every map
ValidateAnything(alloyID, percentages) == [ok |-> TRUE, err |-> NoErr]

\* (bool, error)
ValidatePercentages(alloyID, percentages) ==
    LET g    == GetAlloyByID(alloyID)
        ings == g.alloy.Ingredients
    IN  IF ~g.ok THEN [ok |-> FALSE, err |-> "not found"]
        ELSE IF Len(ings) = 0 THEN [ok |-> Len0(percentages) = 0, err |-> NoErr]
        ELSE IF Len0(percentages) = 0 THEN [ok |-> TRUE, err |-> NoErr]
        ELSE IF Len0(percentages) # Len(ings)
             THEN [ok |-> FALSE, err |-> "wrong number of ingredients"]
        ELSE Bind(ValidateLoop(ings, 1, percentages, Zero), LAMBDA loop :
             IF ~loop.ok THEN [ok |-> FALSE, err |-> loop.err]
             ELSE IF SumOff(loop.total)
                  THEN [ok |-> FALSE, err |-> "sum is not 100"]
             ELSE [ok |-> TRUE, err |-> NoErr])

\* a fill that takes every value from the defaults
FillLoopOverwrite(ings, i, fullPerc, defaults) == defaults

\* the fill loop of ResolvePercentagesForAlloy
RECURSIVE FillLoop(_, _, _, _)
FillLoop(ings, i, fullPerc, defaults) ==
    IF i > Len(ings) THEN fullPerc
    ELSE Bind(IF Has(fullPerc, ings[i].IngredientID) THEN fullPerc
              ELSE Put(fullPerc, ings[i].IngredientID,
                       Get(defaults, ings[i].IngredientID)), LAMBDA next :
         FillLoop(ings, i + 1, next, defaults))

\* a copy of the user map, whatever it holds
ResolveWithoutDefaults(alloyID, userPerc) ==
    IF ~GetAlloyByID(alloyID).ok THEN Fail("not found") ELSE Ok(MapOf(userPerc.kv))

ResolvePercentagesForAlloy(alloyID, userPerc) ==
    LET g    == GetAlloyByID(alloyID)
        ings == g.alloy.Ingredients
        copy == MapOf(userPerc.kv)
    IN  IF ~g.ok THEN Fail("not found")
        ELSE IF Len(ings) = 0 THEN Ok(MakeMap)
        ELSE Bind(GetDefaultPercentages(alloyID), LAMBDA defaults :
             IF Len0(userPerc) = 0
             THEN IF defaults.err # NoErr THEN Fail(defaults.err) ELSE Ok(defaults.val)
             ELSE Bind(IF Len0(copy) < Len(ings) /\ defaults.err = NoErr
                       THEN FillLoop(ings, 1, copy, defaults.val)
                       ELSE copy, LAMBDA fullPerc :
                  IF ValidatePercentages(alloyID, fullPerc).ok THEN Ok(fullPerc)
                  ELSE IF defaults.err # NoErr THEN Fail(defaults.err)
                  ELSE Ok(defaults.val)))

\* sumMaterials with res[k] = v in place of res[k] += v
sumMaterialsOverwrite(m1, m2) ==
    MapOf([k \in Keys(m1) \cup Keys(m2) |->
             IF k \in Keys(m2) THEN m2.kv[k] ELSE m1.kv[k]])

sumMaterials(m1, m2) ==
    LET res == m1.kv
    IN  MapOf([k \in (DOMAIN res) \cup Keys(m2) |->
                 IF k \in Keys(m2)
                 THEN FAdd(IF k \in DOMAIN res THEN res[k] ELSE Zero, m2.kv[k])
                 ELSE res[k]])

RECURSIVE getBaseMaterialBreakdown(_, _, _, _)
RECURSIVE ExpandLoop(_, _, _, _, _, _, _)

\* the ingredient loop of getBaseMaterialBreakdown
ExpandLoop(ings, i, total, percentagesToUse, amountMB, allUserPerc, level) ==
    IF i > Len(ings) THEN Ok(total)
    ELSE IF ~Has(percentagesToUse, ings[i].IngredientID) THEN Fail("internal error")
    ELSE Bind(RequiredMB(amountMB, Get(percentagesToUse, ings[i].IngredientID)),
         LAMBDA requiredMB :
         IF RLess(requiredMB, Negligible)
         THEN ExpandLoop(ings, i + 1, total, percentagesToUse, amountMB,
                         allUserPerc, level)
         ELSE Bind(getBaseMaterialBreakdown(ings[i].IngredientID, requiredMB,
                                            allUserPerc, level + 1), LAMBDA sub :
              IF sub.err # NoErr THEN Fail(sub.err)
              ELSE Bind(sumMaterials(total, sub.val), LAMBDA next :
                   ExpandLoop(ings, i + 1, next, percentagesToUse, amountMB,
                              allUserPerc, level))))

\* percentagesToUse taken from the overrides as they are, unresolved
PercentagesToUseUnchecked(targetID, allUserPerc) ==
    IF Has(allUserPerc, targetID) /\ Len0(allUserPerc.kv[targetID]) > 0
    THEN Ok(allUserPerc.kv[targetID])
    ELSE GetDefaultPercentages(targetID)

\* percentagesToUse taken from the defaults, whatever the overrides hold
PercentagesToUseDefaults(targetID, allUserPerc) == GetDefaultPercentages(targetID)

\* percentagesToUse of getBaseMaterialBreakdown, with the error that ends the call
PercentagesToUse(targetID, allUserPerc) ==
    IF Has(allUserPerc, targetID)
    THEN Bind(ResolvePercentagesForAlloy(targetID, allUserPerc.kv[targetID]),
         LAMBDA resolved :
         IF resolved.err # NoErr THEN Ok(GetDefaultPercentages(targetID).val)
         ELSE resolved)
    ELSE GetDefaultPercentages(targetID)

getBaseMaterialBreakdown(targetID, amountMB, allUserPerc, level) ==
    LET g          == GetAlloyByID(targetID)
        targetData == g.alloy
    IN  IF TooDeep(level) THEN Fail("maximum recursion depth exceeded")
        ELSE IF ~g.ok THEN Fail("unknown material")
        ELSE IF targetData.Type = "base" THEN Ok(MapOf(targetID :> amountMB))
        ELSE IF IsSteel(targetID)
             THEN getBaseMaterialBreakdown("pig_iron", amountMB, allUserPerc, level + 1)
        ELSE IF targetData.Type = "final_steel"
             THEN IF ~targetData.RawFormID.Valid \/ ~targetData.ExtraIngredientID.Valid
                  THEN Fail("incomplete data")
                  ELSE Bind(getBaseMaterialBreakdown(targetData.RawFormID.String,
                                amountMB, allUserPerc, level + 1), LAMBDA rawCost :
                       IF rawCost.err # NoErr THEN Fail(rawCost.err)
                       ELSE Bind(getBaseMaterialBreakdown(
                                    targetData.ExtraIngredientID.String,
                                    amountMB, allUserPerc, level + 1), LAMBDA extraCost :
                            IF extraCost.err # NoErr THEN Fail(extraCost.err)
                            ELSE Ok(sumMaterials(rawCost.val, extraCost.val))))
        ELSE IF targetData.Type \in {"alloy", "raw_steel", "processed"}
             THEN IF Len(targetData.Ingredients) = 0 THEN Ok(MakeMap)
                  ELSE Bind(PercentagesToUse(targetID, allUserPerc), LAMBDA toUse :
                       IF toUse.err # NoErr THEN Fail(toUse.err)
                       ELSE ExpandLoop(targetData.Ingredients, 1, MakeMap, toUse.val,
                                       amountMB, allUserPerc, level))
        ELSE Fail("unhandled material type")

\* finalMaterialsIngots: every entry of the mB map divided by 100
IngotsOf(mb) == MapOf([k \in Keys(mb) |-> RDiv(mb.kv[k], Hundred)])

\* the end of CalculateRequirements, from the Ingots map on
Finish(targetID, targetData, mode, amountMB, m, perc) ==
    IF Len0(m) = 0 /\ targetData.Type = "base" /\ mode = "mB"
    THEN [mb     |-> Put(m, targetID, amountMB),
          ingots |-> Put(IngotsOf(m), targetID, RDiv(amountMB, Hundred)),
          err    |-> NoErr, allUserPerc |-> perc]
    ELSE [mb |-> m, ingots |-> IngotsOf(m), err |-> NoErr, allUserPerc |-> perc]

\* an error return that hands out empty maps in place of nil ones
FailedWithMaps(e, perc) ==
    [mb |-> MakeMap, ingots |-> MakeMap, err |-> e, allUserPerc |-> perc]

\* an error return of CalculateRequirements
Failed(e, perc) == [mb |-> NilMap, ingots |-> NilMap, err |-> e, allUserPerc |-> perc]

\* the top-level validation under the target's own identifier, whatever its type
IdForValidationOwn(targetID, targetData) == targetID

\* idForValidation of CalculateRequirements
IdForValidation(targetID, targetData) ==
    IF targetData.Type = "final_steel" THEN targetData.RawFormID.String ELSE targetID

\* (map, map, error), and allUserPerc as the call leaves the caller's map
CalculateRequirements(targetID, amount, mode, allUserPerc) ==
    LET g          == GetAlloyByID(targetID)
        targetData == g.alloy
        idForValidation == IdForValidation(targetID, targetData)
        userMap    == allUserPerc.kv[idForValidation]
        checked    == Has(allUserPerc, idForValidation) /\ Len0(userMap) > 0
    IN  IF RLeq(amount, Zero) THEN Failed("amount must be positive", allUserPerc)
        ELSE IF mode # "mB" /\ mode # "Ingots" THEN Failed("invalid mode", allUserPerc)
        ELSE IF ~g.ok THEN Failed("not found", allUserPerc)
        ELSE IF checked /\ ResolvePercentagesForAlloy(idForValidation, userMap).err # NoErr
             THEN Failed("invalid user percentages", allUserPerc)
        ELSE Bind(IF checked
                  THEN Put(allUserPerc, idForValidation,
                           ResolvePercentagesForAlloy(idForValidation, userMap).val)
                  ELSE allUserPerc, LAMBDA perc :
             Bind(AmountMB(amount, mode), LAMBDA amountMB :
             IF targetData.Type = "final_steel"
             THEN Bind(getBaseMaterialBreakdown(targetData.RawFormID.String,
                                                amountMB, perc, 0), LAMBDA raw :
                  IF raw.err # NoErr THEN Failed(raw.err, perc)
                  ELSE Bind(getBaseMaterialBreakdown(targetData.ExtraIngredientID.String,
                                                     amountMB, perc, 0), LAMBDA extra :
                       IF extra.err # NoErr THEN Failed(extra.err, perc)
                       ELSE Bind(sumMaterials(raw.val, extra.val), LAMBDA m :
                            Finish(targetID, targetData, mode, amountMB, m, perc))))
             ELSE Bind(getBaseMaterialBreakdown(targetID, amountMB, perc, 0),
                  LAMBDA need :
                  IF need.err # NoErr THEN Failed(need.err, perc)
                  ELSE Finish(targetID, targetData, mode, amountMB, need.val, perc))))

-----------------------------------------------------------------------------
(* package calculator, src/calculator/calculator.go (names with the suffix V1) *)

\* AlloyInfo.RawForm and AlloyInfo.ExtraIngredient: "" when the row has none
RawForm(a) == a.RawFormID.String

ExtraIngredient(a) == a.ExtraIngredientID.String

\* the loop of GetDefaultPercentages: acc = [percentages, total]
RECURSIVE MidpointLoopV1(_, _, _)
MidpointLoopV1(ings, i, acc) ==
    IF i > Len(ings) THEN acc
    ELSE Bind(RDiv(RAdd(ings[i].Min, ings[i].Max), F(2)), LAMBDA mid :
         Bind([percentages |-> Put(acc.percentages, ings[i].IngredientID, mid),
               total       |-> RAdd(acc.total, mid)], LAMBDA next :
         MidpointLoopV1(ings, i + 1, next)))

GetDefaultPercentagesV1(alloyID) ==
    LET g       == GetAlloyByID(alloyID)
        ings    == g.alloy.Ingredients
        firstIngID == ings[1].IngredientID
    IN  IF ~g.ok THEN Fail("not found")
        ELSE IF Len(ings) = 0 THEN Ok(MakeMap)
        ELSE Bind(MidpointLoopV1(ings, 1, [percentages |-> MakeMap, total |-> Zero]),
             LAMBDA acc :
             IF RLess(SumTolerance, RAbs(RSub(acc.total, Hundred))) /\ Len(ings) > 0
             THEN IF Has(acc.percentages, firstIngID)
                  THEN Ok(Put(acc.percentages, firstIngID,
                              RAdd(Get(acc.percentages, firstIngID),
                                   RSub(Hundred, acc.total))))
                  ELSE Fail("internal error")
             ELSE Ok(acc.percentages))

\* epsilon of ValidatePercentages
epsilon == <<1, 1000>>

\* the loop of ValidatePercentages: [ok, err, totalPercent]
RECURSIVE ValidateLoopV1(_, _, _, _)
ValidateLoopV1(ings, i, percentages, totalPercent) ==
    IF i > Len(ings) THEN [ok |-> TRUE, err |-> NoErr, total |-> totalPercent]
    ELSE LET ingData == ings[i]
             percent == Get(percentages, ingData.IngredientID)
         IN  IF ~Has(percentages, ingData.IngredientID)
             THEN [ok |-> FALSE, err |-> "percentage missing", total |-> totalPercent]
             ELSE IF RLess(percent, RSub(ingData.Min, epsilon))
                     \/ RLess(RAdd(ingData.Max, epsilon), percent)
             THEN [ok |-> FALSE, err |-> "outside range", total |-> totalPercent]
             ELSE Bind(RAdd(totalPercent, percent), LAMBDA t :
                  ValidateLoopV1(ings, i + 1, percentages, t))

ValidatePercentagesV1(alloyID, percentages) ==
    LET g    == GetAlloyByID(alloyID)
        ings == g.alloy.Ingredients
        requiredIngCount == Len(ings)
        providedIngCount == Len0(percentages)
    IN  IF ~g.ok THEN [ok |-> FALSE, err |-> "not found"]
        ELSE IF Len(ings) = 0 THEN [ok |-> Len0(percentages) = 0, err |-> NoErr]
        ELSE IF Len0(percentages) = 0 THEN [ok |-> TRUE, err |-> NoErr]
        ELSE IF providedIngCount # requiredIngCount
             THEN [ok |-> FALSE, err |-> "wrong number of ingredients"]
        ELSE Bind(ValidateLoopV1(ings, 1, percentages, Zero), LAMBDA loop :
             IF ~loop.ok THEN [ok |-> FALSE, err |-> loop.err]
             ELSE IF RLess(SumTolerance, RAbs(RSub(loop.total, Hundred)))
                  THEN [ok |-> FALSE, err |-> "sum is not 100"]
             ELSE [ok |-> TRUE, err |-> NoErr])

sumMaterialsV1(materials1, materials2) ==
    LET result == materials1.kv
    IN  MapOf([id \in (DOMAIN result) \cup Keys(materials2) |->
                 IF id \in Keys(materials2)
                 THEN FAdd(IF id \in DOMAIN result THEN result[id] ELSE Zero,
                           materials2.kv[id])
                 ELSE result[id]])

\* the loop that adds the default of every ingredient the map leaves out
RECURSIVE FillLoopV1(_, _, _, _)
FillLoopV1(ings, i, fullPercMap, defaultPercentages) ==
    IF i > Len(ings) THEN fullPercMap
    ELSE Bind(IF Has(fullPercMap, ings[i].IngredientID) THEN fullPercMap
              ELSE Put(fullPercMap, ings[i].IngredientID,
                       Get(defaultPercentages, ings[i].IngredientID)), LAMBDA next :
         FillLoopV1(ings, i + 1, next, defaultPercentages))

\* fullPercMap: the user's entries, and the default of every ingredient left out
FullPercMapV1(alloyID, ings, specificPerc) ==
    Bind(MapOf(specificPerc.kv), LAMBDA copy :
    IF Len0(copy) < Len(ings)
    THEN Bind(GetDefaultPercentagesV1(alloyID), LAMBDA d :
         IF d.err = NoErr /\ ~d.val.nil THEN FillLoopV1(ings, 1, copy, d.val) ELSE copy)
    ELSE copy)

\* percentagesToUse of getBaseMaterialBreakdown, with the error that ends the call
PercentagesToUseV1(targetID, targetData, allUserPercentages) ==
    Bind(IF Has(allUserPercentages, targetID)
            /\ Len0(allUserPercentages.kv[targetID]) > 0
         THEN FullPercMapV1(targetID, targetData.Ingredients,
                            allUserPercentages.kv[targetID])
         ELSE NilMap, LAMBDA fullPercMap :
    IF ~fullPercMap.nil /\ ValidatePercentagesV1(targetID, fullPercMap).ok
    THEN Ok(fullPercMap)
    ELSE Bind(GetDefaultPercentagesV1(targetID), LAMBDA d :
         IF d.err # NoErr THEN Fail(d.err)
         ELSE IF ~ValidatePercentagesV1(targetID, d.val).ok
              THEN Fail("default percentages invalid")
         ELSE d))

RECURSIVE getBaseMaterialBreakdownV1(_, _, _, _)
RECURSIVE ExpandLoopV1(_, _, _, _, _, _, _)

ExpandLoopV1(ings, i, totalBaseMaterials, percentagesToUse, amountMB, allUserPercentages, level) ==
    IF i > Len(ings) THEN Ok(totalBaseMaterials)
    ELSE IF ~Has(percentagesToUse, ings[i].IngredientID) THEN Fail("internal error")
    ELSE Bind(RMul(amountMB, RDiv(Get(percentagesToUse, ings[i].IngredientID), Hundred)),
         LAMBDA requiredIngAmountMB :
         IF RLess(requiredIngAmountMB, Negligible)
         THEN ExpandLoopV1(ings, i + 1, totalBaseMaterials, percentagesToUse, amountMB,
                           allUserPercentages, level)
         ELSE Bind(getBaseMaterialBreakdownV1(ings[i].IngredientID, requiredIngAmountMB,
                                              allUserPercentages, level + 1),
              LAMBDA sub :
              IF sub.err # NoErr THEN Fail(sub.err)
              ELSE Bind(sumMaterialsV1(totalBaseMaterials, sub.val), LAMBDA next :
                   ExpandLoopV1(ings, i + 1, next, percentagesToUse, amountMB,
                                allUserPercentages, level))))

getBaseMaterialBreakdownV1(targetID, amountMB, allUserPercentages, level) ==
    LET g          == GetAlloyByID(targetID)
        targetData == g.alloy
    IN  IF level > MaxLevel THEN Fail("maximum recursion depth exceeded")
        ELSE IF ~g.ok THEN Fail("unknown material")
        ELSE IF targetData.Type = "base" THEN Ok(MapOf(targetID :> amountMB))
        ELSE IF targetID = "steel"
             THEN getBaseMaterialBreakdownV1("pig_iron", amountMB, allUserPercentages,
                                             level + 1)
        ELSE IF targetData.Type = "final_steel"
             THEN IF RawForm(targetData) = "" \/ ExtraIngredient(targetData) = ""
                  THEN Fail("incomplete data")
                  ELSE Bind(getBaseMaterialBreakdownV1(RawForm(targetData), amountMB,
                                allUserPercentages, level + 1), LAMBDA rawCost :
                       IF rawCost.err # NoErr THEN Fail(rawCost.err)
                       ELSE Bind(getBaseMaterialBreakdownV1(ExtraIngredient(targetData),
                                    amountMB, allUserPercentages, level + 1),
                            LAMBDA extraCost :
                            IF extraCost.err # NoErr THEN Fail(extraCost.err)
                            ELSE Ok(sumMaterialsV1(rawCost.val, extraCost.val))))
        ELSE IF targetData.Type \in {"alloy", "processed", "raw_steel"}
             THEN IF Len(targetData.Ingredients) = 0 THEN Ok(MakeMap)
                  ELSE Bind(PercentagesToUseV1(targetID, targetData, allUserPercentages),
                       LAMBDA toUse :
                       IF toUse.err # NoErr THEN Fail(toUse.err)
                       ELSE ExpandLoopV1(targetData.Ingredients, 1, MakeMap, toUse.val,
                                         amountMB, allUserPercentages, level))
        ELSE Fail("unhandled material type")

\* fullPercMap of CalculateRequirements: as FullPercMapV1, but the error of
\* GetDefaultPercentages is dropped and only a nil map skips the fill
FullPercMapTopV1(alloyID, ings, specificPerc) ==
    Bind(MapOf(specificPerc.kv), LAMBDA copy :
    IF Len0(copy) < Len(ings)
    THEN Bind(GetDefaultPercentagesV1(alloyID), LAMBDA d :
         IF ~d.val.nil THEN FillLoopV1(ings, 1, copy, d.val) ELSE copy)
    ELSE copy)

\* "Prepare Final Results": the entries above the threshold, and the base-metal case
FinishV1(targetID, targetData, amount, mode, finalMaterialsMB, perc) ==
    Bind(MapOf([id \in {k \in Keys(finalMaterialsMB) :
                          RLess(Negligible, finalMaterialsMB.kv[k])}
                |-> finalMaterialsMB.kv[id]]), LAMBDA resultMB :
    IF Len0(resultMB) = 0 /\ targetData.Type = "base" /\ mode = "mB"
    THEN [mb     |-> Put(resultMB, targetID, amount),
          ingots |-> Put(IngotsOf(resultMB), targetID, RDiv(amount, Hundred)),
          err    |-> NoErr, allUserPerc |-> perc]
    ELSE [mb |-> resultMB, ingots |-> IngotsOf(resultMB), err |-> NoErr,
          allUserPerc |-> perc])

\* "Calculation Logic based on Mode": finalMaterialsMB, or the error
CalculationLogicV1(targetID, targetData, amount, mode, perc) ==
    IF mode = "Ingots"
    THEN Bind(RMul(amount, F(100)), LAMBDA amountMB :
         IF targetData.Type = "final_steel"
         THEN IF RawForm(targetData) = "" \/ ExtraIngredient(targetData) = ""
              THEN Fail("incomplete data")
              ELSE Bind(getBaseMaterialBreakdownV1(RawForm(targetData), amountMB, perc, 0),
                   LAMBDA rawBreakdown :
                   IF rawBreakdown.err # NoErr THEN Fail(rawBreakdown.err)
                   ELSE Bind(IF ExtraIngredient(targetData) = "pig_iron"
                             THEN Ok(MapOf("pig_iron" :> amountMB))
                             ELSE getBaseMaterialBreakdownV1(ExtraIngredient(targetData),
                                                             amountMB, perc, 0),
                        LAMBDA extra :
                        IF extra.err # NoErr THEN Fail(extra.err)
                        ELSE Ok(sumMaterialsV1(rawBreakdown.val, extra.val))))
         ELSE getBaseMaterialBreakdownV1(targetID, amountMB, perc, 0))
    ELSE getBaseMaterialBreakdownV1(
            IF targetData.Type = "final_steel" THEN RawForm(targetData) ELSE targetID,
            amount, perc, 0)

CalculateRequirementsV1(targetID, amount, mode, allUserPercentages) ==
    LET g          == GetAlloyByID(targetID)
        targetData == g.alloy
        idForValidation == IF targetData.Type = "final_steel"
                           THEN RawForm(targetData) ELSE targetID
        specificPerc == allUserPercentages.kv[idForValidation]
        checked    == Has(allUserPercentages, idForValidation) /\ Len0(specificPerc) > 0
        alloyToValidate == GetAlloyByID(idForValidation).alloy
    IN  IF RLeq(amount, Zero) THEN Failed("amount must be positive", allUserPercentages)
        ELSE IF mode # "mB" /\ mode # "Ingots"
             THEN Failed("invalid mode", allUserPercentages)
        ELSE IF ~g.ok THEN Failed("not found", allUserPercentages)
        ELSE Bind(IF checked
                  THEN FullPercMapTopV1(idForValidation, alloyToValidate.Ingredients,
                                        specificPerc)
                  ELSE NilMap, LAMBDA fullPercMap :
             IF checked /\ ~ValidatePercentagesV1(idForValidation, fullPercMap).ok
             THEN Failed("invalid user percentages", allUserPercentages)
             ELSE Bind(IF checked THEN Put(allUserPercentages, idForValidation, fullPercMap)
                       ELSE allUserPercentages, LAMBDA perc :
                  Bind(CalculationLogicV1(targetID, targetData, amount, mode, perc),
                  LAMBDA final :
                  IF final.err # NoErr THEN Failed(final.err, perc)
                  ELSE FinishV1(targetID, targetData, amount, mode, final.val, perc))))

-----------------------------------------------------------------------------
(* the callers: inputs *)

\* identifiers passed to the engine
CallIDs == IDs \cup UnknownIDs

\* amounts: negative, zero, 0.0005 (under the negligible threshold), 0.004
\* (small enough for pruning), and ordinary ones
Amounts == {F(-5), Zero, <<1, 2000>>, <<1, 250>>, F(1), F(50), F(100)}

Modes == {"mB", "Ingots", "WrongMode"}

\* the identifiers of the alloy cycle, and the level from which the callers
\* enter it: from there the chain loop_a, loop_b, loop_a, ... runs through
\* seven nested ingredient loops before it meets the depth guard
AlloyCycle == {"loop_a", "loop_b"}

DeepLevel == MaxLevel - 6

\* recursion levels at which getBaseMaterialBreakdown is entered directly
Levels == {0, DeepLevel, MaxLevel, MaxLevel + 1}

\* the targets of CalculateRequirements, which enters the expansion at level 0
TargetIDs == CallIDs \ AlloyCycle

\* percentage maps over copper, zinc and nickel.  The values sit on and around
\* the bounds of brass (copper [88,92], zinc [8,12]) and of tight, and around
\* the sum tolerance; none sits at a distance of exactly eps from a bound or
\* of exactly SumTolerance from 100, where the float64 comparison depends on
\* rounding.
Absent == <<0, 0>>

CopperValues == {Absent, <<87998, 1000>>, F(88), F(90), <<9199, 100>>, F(92),
                 <<920005, 10000>>, <<92002, 1000>>, F(95), F(50), <<10001, 200>>,
                 <<18001, 200>>}

ZincValues == {Absent, <<79995, 10000>>, F(8), <<8011, 1000>>, F(10), <<2001, 200>>,
               F(12), <<12002, 1000>>, F(5), F(50)}

NickelValues == {Absent, Zero}

GridMap(c, z, n) ==
    LET pairs == {<<"copper", c>>, <<"zinc", z>>, <<"nickel", n>>}
        keys  == {p[1] : p \in {q \in pairs : q[2] # Absent}}
    IN  MapOf([k \in keys |-> (CHOOSE p \in pairs : p[1] = k)[2]])

\* percentage maps for raw_black_steel and steel
SteelMaps ==
    {MapOf("steel" :> F(70) @@ "nickel" :> F(15) @@ "black_bronze" :> F(15)),
     MapOf("steel" :> F(60)),
     MapOf("steel" :> F(70)),
     MapOf("pig_iron" :> F(100)),
     MapOf("pig_iron" :> F(50))}

PercChoices ==
    {NilMap} \cup SteelMaps
    \cup {GridMap(c, z, n) : c \in CopperValues, z \in ZincValues, n \in NickelValues}

\* the materials whose percentage maps the callers pass
PercIDs == {"brass", "tight", "steel", "raw_black_steel", "copper", "nonexistent"}

\* the (material, percentage map) arguments: every map for the materials of
\* PercIDs, the two empty maps for every identifier
PercCalls == (PercIDs \X PercChoices) \cup (CallIDs \X {NilMap, MakeMap})

\* overrides maps (map[alloyID] -> percentage map) the caller builds
One(id, m) == MapOf(id :> m)

OverrideChoices ==
    {NilMap, MakeMap,
     One("brass", NilMap),
     One("brass", MakeMap),
     One("brass", MapOf("copper" :> F(92) @@ "zinc" :> F(8))),
     One("brass", MapOf("copper" :> F(92))),
     One("brass", MapOf("copper" :> F(95) @@ "zinc" :> F(5))),
     One("brass", MapOf("zinc" :> F(10))),
     One("brass", MapOf("copper" :> F(90) @@ "zinc" :> <<2001, 200>>)),
     One("raw_black_steel", MapOf("steel" :> F(70) @@ "nickel" :> F(15)
                                  @@ "black_bronze" :> F(15))),
     One("raw_black_steel", MapOf("steel" :> F(70))),
     One("black_steel", MapOf("steel" :> F(70) @@ "nickel" :> F(15)
                              @@ "black_bronze" :> F(15))),
     MapOf("raw_black_steel" :> MapOf("steel" :> F(70) @@ "nickel" :> F(15)
                                      @@ "black_bronze" :> F(15))
           @@ "black_steel" :> MapOf("steel" :> F(50) @@ "nickel" :> F(25)
                                     @@ "black_bronze" :> F(25))),
     MapOf("raw_black_steel" :> MapOf("steel" :> F(55) @@ "nickel" :> F(25))
           @@ "black_steel" :> MapOf("steel" :> F(5))),
     MapOf("black_bronze" :> MapOf("copper" :> F(90))
           @@ "raw_blue_steel" :> MapOf("black_steel" :> F(55) @@ "steel" :> F(20))),
     One("black_bronze", MapOf("copper" :> F(70) @@ "silver" :> F(15) @@ "gold" :> F(15))),
     One("steel", MapOf("pig_iron" :> F(50)))}

-----------------------------------------------------------------------------
(* the callers: state and actions *)

\* the record of the last call: its operation, its arguments, the caller's
\* overrides map when it was made, and what it returned
Call(op, id, amount, mode, level, perc, before, val, ingots, ok, err) ==
    [op |-> op, id |-> id, amount |-> amount, mode |-> mode, level |-> level,
     perc |-> perc, before |-> before, val |-> val, ingots |-> ingots,
     ok |-> ok, err |-> err]

Idle == Call("none", "", Zero, "", 0, NilMap, NilMap, NilMap, NilMap, FALSE, NoErr)

-----------------------------------------------------------------------------
(* package data, src/data/db.go: the catalog kept in MySQL, and its cache *)

\* the identifiers of the rows the table alloys holds
DbIDs == {"copper", "zinc", "brass"}

\* the table alloys: id, type, raw_form_id, extra_ingredient_id of every row
AlloysTable ==
    [id \in DbIDs |-> [id |-> id, type |-> TfcAlloys[id].Type,
                       raw_form_id |-> TfcAlloys[id].RawFormID,
                       extra_ingredient_id |-> TfcAlloys[id].ExtraIngredientID]]

\* the table ingredients: the rows of every alloy_id, in the order of the query
IngredientsTable == [id \in DbIDs |-> TfcAlloys[id].Ingredients]

\* AlloyInfo{}
ZeroAlloyInfo ==
    [ID |-> "", Type |-> "", RawFormID |-> Null, ExtraIngredientID |-> Null,
     Ingredients |-> <<>>]

\* a query of the ingredients that scans no row
NoIngredientsForAlloy(alloyID) == <<>>

dbGetIngredientsForAlloy(alloyID) ==
    IF alloyID \in DOMAIN IngredientsTable THEN IngredientsTable[alloyID] ELSE <<>>

\* a row of alloys scanned into an AlloyInfo, with its ingredients fetched
ScanAlloy(row) ==
    [ID |-> row.id, Type |-> row.type, RawFormID |-> row.raw_form_id,
     ExtraIngredientID |-> row.extra_ingredient_id,
     Ingredients |-> dbGetIngredientsForAlloy(row.id)]

\* db.QueryRow(queryAlloy, id) and row.Scan: sql.ErrNoRows when no row has the id.
\* The database answers every query: a failed connection is not modelled.
QueryRow(id) ==
    IF id \in DOMAIN AlloysTable THEN [ok |-> TRUE, a |-> ScanAlloy(AlloysTable[id])]
    ELSE [ok |-> FALSE, a |-> ZeroAlloyInfo]

\* the goroutines that call the catalog
Goroutines == {1, 2}

\* the identifiers they look up
LookupIDs == DbIDs \cup UnknownIDs

\* alloyCacheLock with no holder
Unlocked == [readers |-> {}, writer |-> 0]

\* a goroutine: its place in dbGetAlloyByID or dbGetAllAlloys, the argument id,
\* the locals a (info on a cache hit), rows and result, and the flag returned
Frame(op, pc, id, a, rows, result, ok) ==
    [op |-> op, pc |-> pc, id |-> id, a |-> a, rows |-> rows, result |-> result, ok |-> ok]

NoCall == Frame("none", "idle", "", ZeroAlloyInfo, {}, NilMap, FALSE)

\* the handle db: nil, returned by sql.Open, or returned by sql.Open and
\* answered by db.Ping
DbStates == {"nil", "opened", "pinged"}

\* no call of InitDB has returned yet
NotCalled == "not called"

\* the state after InitDB has succeeded: alloyCache = make(map[string]*AlloyInfo)
Init ==
    /\ percMap = NilMap
    /\ ret = Idle
    /\ alloyCache = MakeMap
    /\ alloyCacheLock = Unlocked
    /\ goroutine = [g \in Goroutines |-> NoCall]
    /\ db = "pinged"
    /\ initOnce = TRUE
    /\ initErr = NoErr

\* the state at program start: the package variables hold their zero values
InitBoot ==
    /\ percMap = NilMap
    /\ ret = Idle
    /\ alloyCache = NilMap
    /\ alloyCacheLock = Unlocked
    /\ goroutine = [g \in Goroutines |-> NoCall]
    /\ db = "nil"
    /\ initOnce = FALSE
    /\ initErr = NotCalled

\* The engine is synchronous and single-threaded: a caller makes a call when
\* no call is under way, and takes the result before it makes the next one.

\* the caller builds a new overrides map (ui: the percentage entries are read)
SetOverrides ==
    /\ ret = Idle
    /\ \E m \in OverrideChoices : percMap' = m
    /\ ret' = Idle
    /\ UNCHANGED dbVars

\* the caller takes the result; its overrides map stays as the call left it
Return ==
    /\ ret # Idle
    /\ ret' = Idle
    /\ UNCHANGED percMap
    /\ UNCHANGED dbVars

CallGetDefaultPercentages ==
    /\ ret = Idle
    /\ \E id \in CallIDs :
         \E r \in {GetDefaultPercentages(id)} :
             ret' = Call("GetDefaultPercentages", id, Zero, "", 0, NilMap, percMap,
                         r.val, NilMap, r.err = NoErr, r.err)
    /\ UNCHANGED percMap
    /\ UNCHANGED dbVars

CallValidatePercentages ==
    /\ ret = Idle
    /\ \E c \in PercCalls :
         \E r \in {ValidatePercentages(c[1], c[2])} :
             ret' = Call("ValidatePercentages", c[1], Zero, "", 0, c[2], percMap,
                         NilMap, NilMap, r.ok, r.err)
    /\ UNCHANGED percMap
    /\ UNCHANGED dbVars

CallResolvePercentagesForAlloy ==
    /\ ret = Idle
    /\ \E c \in PercCalls :
         \E r \in {ResolvePercentagesForAlloy(c[1], c[2])} :
             ret' = Call("ResolvePercentagesForAlloy", c[1], Zero, "", 0, c[2], percMap,
                         r.val, NilMap, r.err = NoErr, r.err)
    /\ UNCHANGED percMap
    /\ UNCHANGED dbVars

CallGetBaseMaterialBreakdown ==
    /\ ret = Idle
    /\ \E id \in CallIDs, q \in Amounts, l \in Levels :
         /\ id \in AlloyCycle => l >= DeepLevel
         /\ \E r \in {getBaseMaterialBreakdown(id, q, percMap, l)} :
             ret' = Call("getBaseMaterialBreakdown", id, q, "", l, NilMap, percMap,
                         r.val, NilMap, r.err = NoErr, r.err)
    /\ UNCHANGED percMap
    /\ UNCHANGED dbVars

CallCalculateRequirements ==
    /\ ret = Idle
    /\ \E id \in TargetIDs, a \in Amounts, mode \in Modes :
         \E r \in {CalculateRequirements(id, a, mode, percMap)} :
             /\ ret' = Call("CalculateRequirements", id, a, mode, 0, NilMap, percMap,
                            r.mb, r.ingots, r.err = NoErr, r.err)
             /\ percMap' = r.allUserPerc
    /\ UNCHANGED dbVars

CallGetDefaultPercentagesV1 ==
    /\ ret = Idle
    /\ \E id \in CallIDs :
         \E r \in {GetDefaultPercentagesV1(id)} :
             ret' = Call("GetDefaultPercentagesV1", id, Zero, "", 0, NilMap, percMap,
                         r.val, NilMap, r.err = NoErr, r.err)
    /\ UNCHANGED percMap
    /\ UNCHANGED dbVars

CallValidatePercentagesV1 ==
    /\ ret = Idle
    /\ \E c \in PercCalls :
         \E r \in {ValidatePercentagesV1(c[1], c[2])} :
             ret' = Call("ValidatePercentagesV1", c[1], Zero, "", 0, c[2], percMap,
                         NilMap, NilMap, r.ok, r.err)
    /\ UNCHANGED percMap
    /\ UNCHANGED dbVars

CallGetBaseMaterialBreakdownV1 ==
    /\ ret = Idle
    /\ \E id \in CallIDs, q \in Amounts, l \in Levels :
         /\ id \in AlloyCycle => l >= DeepLevel
         /\ \E r \in {getBaseMaterialBreakdownV1(id, q, percMap, l)} :
             ret' = Call("getBaseMaterialBreakdownV1", id, q, "", l, NilMap, percMap,
                         r.val, NilMap, r.err = NoErr, r.err)
    /\ UNCHANGED percMap
    /\ UNCHANGED dbVars

CallCalculateRequirementsV1 ==
    /\ ret = Idle
    /\ \E id \in TargetIDs, a \in Amounts, mode \in Modes :
         \E r \in {CalculateRequirementsV1(id, a, mode, percMap)} :
             /\ ret' = Call("CalculateRequirementsV1", id, a, mode, 0, NilMap, percMap,
                            r.mb, r.ingots, r.err = NoErr, r.err)
             /\ percMap' = r.allUserPerc
    /\ UNCHANGED dbVars

\* the engine: expansions and requirement calculations under the caller's overrides
Next ==
    \/ SetOverrides
    \/ Return
    \/ CallGetBaseMaterialBreakdown
    \/ CallCalculateRequirements
    \/ CallGetBaseMaterialBreakdownV1
    \/ CallCalculateRequirementsV1

Spec == Init /\ [][Next]_vars

\* the percentage functions, which read the catalog and their arguments only
NextPerc ==
    \/ Return
    \/ CallGetDefaultPercentages
    \/ CallValidatePercentages
    \/ CallResolvePercentagesForAlloy
    \/ CallGetDefaultPercentagesV1
    \/ CallValidatePercentagesV1

SpecPerc == Init /\ [][NextPerc]_vars

-----------------------------------------------------------------------------
(* the callers of sumMaterials *)

\* the maps they pass: those of TestSumMaterials, the two empty maps, and
\* maps with a quantity of 2^53 mB, from where on float64 holds every second
\* integer only
MaterialMaps ==
    {NilMap, MakeMap,
     MapOf("a" :> F(10) @@ "b" :> F(5)),
     MapOf("b" :> <<5, 2>> @@ "c" :> <<15, 2>>),
     MapOf("a" :> F(1)),
     MapOf("a" :> F(1) @@ "b" :> F(1)),
     MapOf("a" :> F(5) @@ "b" :> <<5, 2>> @@ "c" :> F(1)),
     MapOf("c" :> F(3)),
     MapOf("a" :> Big(0)),
     MapOf("a" :> Big(2) @@ "c" :> F(1))}

\* the record of a call of sumMaterials: its arguments as they are after the
\* call, which writes to res alone, and the map it returned
SumCall(op, m1, m2, val) == [op |-> op, m1 |-> m1, m2 |-> m2, val |-> val]

CallSumMaterials ==
    /\ ret = Idle
    /\ \E m1 \in MaterialMaps, m2 \in MaterialMaps :
         \E r \in {sumMaterials(m1, m2)} :
             ret' = SumCall("sumMaterials", m1, m2, r)
    /\ UNCHANGED percMap
    /\ UNCHANGED dbVars

CallSumMaterialsV1 ==
    /\ ret = Idle
    /\ \E m1 \in MaterialMaps, m2 \in MaterialMaps :
         \E r \in {sumMaterialsV1(m1, m2)} :
             ret' = SumCall("sumMaterialsV1", m1, m2, r)
    /\ UNCHANGED percMap
    /\ UNCHANGED dbVars

\* sumMaterials, which reads its two arguments only
NextSum ==
    \/ Return
    \/ CallSumMaterials
    \/ CallSumMaterialsV1

SpecSum == Init /\ [][NextSum]_vars

-----------------------------------------------------------------------------
(* the callers of the catalog: one action for every step of dbGetAlloyByID and
   dbGetAllAlloys between two operations on alloyCacheLock or the database *)

\* goroutine g moves on as frame f
Step(g, f) == goroutine' = [goroutine EXCEPT ![g] = f]

\* the same frame at another place
At(f, pc) == [f EXCEPT !.pc = pc]

\* no goroutine has panicked: a panic ends the program
Alive == \A g \in Goroutines : goroutine[g].pc # "panic"

\* the callers look up the catalog once InitDB has returned nil: main logs
\* the error and exits otherwise
MayLookUp == initErr = NoErr

CallDbGetAlloyByID ==
    /\ Alive
    /\ MayLookUp
    /\ \E g \in Goroutines, id \in LookupIDs :
         /\ goroutine[g].pc = "idle"
         /\ Step(g, Frame("dbGetAlloyByID", "get_rlock", id, ZeroAlloyInfo, {}, NilMap, FALSE))
    /\ UNCHANGED <<alloyCache, alloyCacheLock, engineVars, handleVars>>

CallDbGetAllAlloys ==
    /\ Alive
    /\ MayLookUp
    /\ \E g \in Goroutines :
         /\ goroutine[g].pc = "idle"
         /\ Step(g, Frame("dbGetAllAlloys", "all_rlock", "", ZeroAlloyInfo, {}, MakeMap, FALSE))
    /\ UNCHANGED <<alloyCache, alloyCacheLock, engineVars, handleVars>>

\* alloyCacheLock.RLock(): waits while a writer holds the lock
RLock ==
    /\ Alive
    /\ \E g \in Goroutines :
         /\ goroutine[g].pc \in {"get_rlock", "all_rlock"}
         /\ alloyCacheLock.writer = 0
         /\ alloyCacheLock' = [alloyCacheLock EXCEPT !.readers = @ \cup {g}]
         /\ Step(g, At(goroutine[g],
                       IF goroutine[g].pc = "get_rlock" THEN "get_lookup" ELSE "all_len"))
    /\ UNCHANGED <<alloyCache, engineVars, handleVars>>

\* dbGetAlloyByID: info, ok := alloyCache[id]
LookupCache ==
    /\ Alive
    /\ \E g \in Goroutines :
         /\ goroutine[g].pc = "get_lookup"
         /\ IF Has(alloyCache, goroutine[g].id)
            THEN Step(g, [goroutine[g] EXCEPT !.a = alloyCache.kv[goroutine[g].id],
                                              !.pc = "get_hit_runlock"])
            ELSE Step(g, At(goroutine[g], "get_miss_runlock"))
    /\ UNCHANGED <<alloyCache, alloyCacheLock, engineVars, handleVars>>

\* dbGetAllAlloys: len(alloyCache) > 0, and the copy of the cache into result
LenCache ==
    /\ Alive
    /\ \E g \in Goroutines :
         /\ goroutine[g].pc = "all_len"
         /\ IF Len0(alloyCache) > 0
            THEN Step(g, [goroutine[g] EXCEPT !.result = MapOf(alloyCache.kv),
                                              !.pc = "all_hit_runlock"])
            ELSE Step(g, At(goroutine[g], "all_miss_runlock"))
    /\ UNCHANGED <<alloyCache, alloyCacheLock, engineVars, handleVars>>

\* alloyCacheLock.RUnlock(), and the return that follows it on a hit
RUnlock ==
    /\ Alive
    /\ \E g \in Goroutines :
         /\ goroutine[g].pc \in {"get_hit_runlock", "get_miss_runlock",
                                  "all_hit_runlock", "all_miss_runlock"}
         /\ alloyCacheLock' = [alloyCacheLock EXCEPT !.readers = @ \ {g}]
         /\ Step(g, CASE goroutine[g].pc = "get_hit_runlock" ->
                             [goroutine[g] EXCEPT !.ok = TRUE, !.pc = "done"]
                       [] goroutine[g].pc = "get_miss_runlock" ->
                             At(goroutine[g], "get_query")
                       [] goroutine[g].pc = "all_hit_runlock" ->
                             At(goroutine[g], "done")
                       [] goroutine[g].pc = "all_miss_runlock" ->
                             At(goroutine[g], "all_query"))
    /\ UNCHANGED <<alloyCache, engineVars, handleVars>>

\* the database answers a query on db: a nil handle is dereferenced, a handle
\* that was pinged is answered, one that was not may or may not be
Answers == IF db = "pinged" THEN {TRUE} ELSE BOOLEAN

\* dbGetAlloyByID: the row is fetched, or (AlloyInfo{}, false) is returned
QueryAlloy ==
    /\ Alive
    /\ \E g \in Goroutines :
         /\ goroutine[g].pc = "get_query"
         /\ IF db = "nil" THEN Step(g, At(goroutine[g], "panic"))
            ELSE \E answered \in Answers :
                 \E q \in {QueryRow(goroutine[g].id)} :
                    IF answered /\ q.ok
                    THEN Step(g, [goroutine[g] EXCEPT !.a = q.a, !.pc = "get_lock"])
                    ELSE Step(g, [goroutine[g] EXCEPT !.a = ZeroAlloyInfo, !.ok = FALSE,
                                                      !.pc = "done"])
    /\ UNCHANGED <<alloyCache, alloyCacheLock, engineVars, handleVars>>

\* dbGetAllAlloys: db.Query; the cursor holds the rows still to come
QueryAllAlloys ==
    /\ Alive
    /\ \E g \in Goroutines :
         /\ goroutine[g].pc = "all_query"
         /\ IF db = "nil" THEN Step(g, At(goroutine[g], "panic"))
            ELSE \E answered \in Answers :
                    IF answered
                    THEN Step(g, [goroutine[g] EXCEPT !.rows = DOMAIN AlloysTable,
                                                      !.pc = "all_next"])
                    ELSE Step(g, At(goroutine[g], "done"))
    /\ UNCHANGED <<alloyCache, alloyCacheLock, engineVars, handleVars>>

\* dbGetAllAlloys: rows.Next() and the scan of a row, in whatever order the
\* database hands the rows out; the return when there is none left
NextRow ==
    /\ Alive
    /\ \E g \in Goroutines :
         /\ goroutine[g].pc = "all_next"
         /\ IF goroutine[g].rows = {}
            THEN Step(g, At(goroutine[g], "done"))
            ELSE \E id \in goroutine[g].rows :
                    Step(g, [goroutine[g] EXCEPT !.a = ScanAlloy(AlloysTable[id]),
                                                 !.rows = @ \ {id},
                                                 !.pc = "all_lock"])
    /\ UNCHANGED <<alloyCache, alloyCacheLock, engineVars, handleVars>>

\* alloyCacheLock.Lock(): waits while a reader or a writer holds the lock
Lock ==
    /\ Alive
    /\ \E g \in Goroutines :
         /\ goroutine[g].pc \in {"get_lock", "all_lock"}
         /\ alloyCacheLock = Unlocked
         /\ alloyCacheLock' = [alloyCacheLock EXCEPT !.writer = g]
         /\ Step(g, At(goroutine[g],
                       IF goroutine[g].pc = "get_lock" THEN "get_store" ELSE "all_store"))
    /\ UNCHANGED <<alloyCache, engineVars, handleVars>>

\* alloyCache[id] = &a in dbGetAlloyByID, alloyCache[a.ID] = &a in dbGetAllAlloys:
\* the assignment to an entry of a nil map panics
StoreInCache ==
    /\ Alive
    /\ \E g \in Goroutines :
         /\ goroutine[g].pc \in {"get_store", "all_store"}
         /\ IF alloyCache.nil
            THEN /\ Step(g, At(goroutine[g], "panic"))
                 /\ UNCHANGED alloyCache
            ELSE /\ alloyCache' = Put(alloyCache,
                                      IF goroutine[g].pc = "get_store" THEN goroutine[g].id
                                      ELSE goroutine[g].a.ID,
                                      goroutine[g].a)
                 /\ Step(g, At(goroutine[g],
                               IF goroutine[g].pc = "get_store" THEN "get_unlock"
                               ELSE "all_unlock"))
    /\ UNCHANGED <<alloyCacheLock, engineVars, handleVars>>

\* alloyCacheLock.Unlock(); then dbGetAlloyByID returns (a, true), and
\* dbGetAllAlloys stores result[a.ID] = a and goes on with the rows
Unlock ==
    /\ Alive
    /\ \E g \in Goroutines :
         /\ goroutine[g].pc \in {"get_unlock", "all_unlock"}
         /\ alloyCacheLock' = [alloyCacheLock EXCEPT !.writer = 0]
         /\ IF goroutine[g].pc = "get_unlock"
            THEN Step(g, [goroutine[g] EXCEPT !.ok = TRUE, !.pc = "done"])
            ELSE Step(g, [goroutine[g] EXCEPT
                             !.result = Put(@, goroutine[g].a.ID, goroutine[g].a),
                             !.pc = "all_next"])
    /\ UNCHANGED <<alloyCache, engineVars, handleVars>>

\* the caller takes what the call returned
TakeResult ==
    /\ Alive
    /\ \E g \in Goroutines :
         /\ goroutine[g].pc = "done"
         /\ Step(g, NoCall)
    /\ UNCHANGED <<alloyCache, alloyCacheLock, engineVars, handleVars>>

\* the catalog under concurrent callers
NextDB ==
    \/ CallDbGetAlloyByID
    \/ CallDbGetAllAlloys
    \/ RLock
    \/ LookupCache
    \/ LenCache
    \/ RUnlock
    \/ QueryAlloy
    \/ QueryAllAlloys
    \/ NextRow
    \/ Lock
    \/ StoreInCache
    \/ Unlock
    \/ TakeResult

SpecDB == Init /\ [][NextDB]_vars

-----------------------------------------------------------------------------
(* the start of the program: InitDB and the lookups that follow it *)

\* the outcomes of sql.Open and of db.Ping
Outcomes == {"ok", "failed"}

\* InitDB: the body runs in the first call only, under initOnce; err is a
\* variable of the call, so a call that finds initOnce done returns nil
InitDB(open, ping) ==
    IF initOnce THEN [db |-> db, alloyCache |-> alloyCache, err |-> NoErr]
    ELSE IF open = "failed"
         THEN [db |-> "nil", alloyCache |-> alloyCache, err |-> "error opening MySQL"]
    ELSE IF ping = "failed"
         THEN [db |-> "opened", alloyCache |-> alloyCache, err |-> "cannot ping MySQL"]
    ELSE [db |-> "pinged", alloyCache |-> MakeMap, err |-> NoErr]

\* a caller calls InitDB before it looks anything up (main, TestMain)
CallInitDB ==
    /\ \A g \in Goroutines : goroutine[g].pc = "idle"
    /\ \E open \in Outcomes, ping \in Outcomes :
         \E r \in {InitDB(open, ping)} :
            /\ db' = r.db
            /\ alloyCache' = r.alloyCache
            /\ initErr' = r.err
            /\ initOnce' = TRUE
    /\ UNCHANGED <<alloyCacheLock, goroutine, engineVars>>

NextInit ==
    \/ CallInitDB
    \/ NextDB

SpecInit == InitBoot /\ [][NextInit]_vars


-----------------------------------------------------------------------------
(* The properties of the engine *)

\* the quantity a breakdown holds of a material: 0 when the key is absent
Qty(m, k) == IF k \in Keys(m) THEN m.kv[k] ELSE Zero

\* m is the key-wise sum of a and b: its keys are the keys of either, and
\* each quantity is the sum of the two quantities
IsKeywiseSum(m, a, b) ==
    /\ Keys(m) = Keys(a) \cup Keys(b)
    /\ \A k \in Keys(m) : m.kv[k] = RAdd(Qty(a, k), Qty(b, k))

\* a final_steel row with both of its components set
IsComposite(id) ==
    /\ id \in IDs
    /\ TfcAlloys[id].Type = "final_steel"
    /\ TfcAlloys[id].RawFormID.Valid
    /\ TfcAlloys[id].ExtraIngredientID.Valid

\* C1: the breakdown of a final_steel material with both components set is
\* the key-wise sum of the breakdown of its raw form and the breakdown of its
\* extra ingredient, each at the full quantity Q (not split between them);
\* a base material both produce gets the sum of the two quantities.
C1_CompositeIsKeywiseSum ==
    (ret.op = "getBaseMaterialBreakdown" /\ IsComposite(ret.id)
        /\ ret.level <= MaxLevel) =>
        LET a == getBaseMaterialBreakdown(TfcAlloys[ret.id].RawFormID.String,
                                          ret.amount, ret.before, ret.level + 1)
            b == getBaseMaterialBreakdown(TfcAlloys[ret.id].ExtraIngredientID.String,
                                          ret.amount, ret.before, ret.level + 1)
        IN  IF a.err = NoErr /\ b.err = NoErr
            THEN ret.err = NoErr /\ IsKeywiseSum(ret.val, a.val, b.val)
            ELSE ret.err # NoErr

\* twin_steel at 100 mB: brass gives copper 90, the extra ingredient copper 100
C1_Witness ==
    /\ ret.op = "getBaseMaterialBreakdown"
    /\ ret.id = "twin_steel"
    /\ ret.amount = F(100)
    /\ ret.before = NilMap
    /\ ret.err = NoErr
    /\ ret.val = MapOf("copper" :> F(190) @@ "zinc" :> F(10))

\* the sum of the values of a map
RECURSIVE SumOver(_, _)
SumOver(m, S) ==
    IF S = {} THEN Zero
    ELSE LET k == CHOOSE x \in S : TRUE
         IN  RAdd(m.kv[k], SumOver(m, S \ {k}))

Total(m) == SumOver(m, Keys(m))

\* a row of type alloy, raw_steel or processed that has an ingredient list
IsSimpleAlloy(id) ==
    /\ id \in IDs
    /\ TfcAlloys[id].Type \in {"alloy", "raw_steel", "processed"}
    /\ Len(TfcAlloys[id].Ingredients) > 0

\* no node of the expansion of (id, q) prunes an ingredient
RECURSIVE NoPruning(_, _, _, _)
NoPruning(id, q, ov, level) ==
    IF level > MaxLevel \/ id \notin IDs THEN TRUE
    ELSE IF TfcAlloys[id].Type = "base" \/ id = "steel" THEN TRUE
    ELSE IF TfcAlloys[id].Type = "final_steel"
         THEN /\ NoPruning(TfcAlloys[id].RawFormID.String, q, ov, level + 1)
              /\ NoPruning(TfcAlloys[id].ExtraIngredientID.String, q, ov, level + 1)
    ELSE IF ~IsSimpleAlloy(id) THEN TRUE
    ELSE LET toUse == PercentagesToUse(id, ov)
             ings  == TfcAlloys[id].Ingredients
         IN  toUse.err = NoErr =>
                \A i \in 1..Len(ings) :
                    Has(toUse.val, ings[i].IngredientID) =>
                        LET req == RequiredMB(q, Get(toUse.val, ings[i].IngredientID))
                        IN  /\ ~RLess(req, Negligible)
                            /\ NoPruning(ings[i].IngredientID, req, ov, level + 1)

\* the expansion of id reaches no final_steel node, and the percentages in use
\* at each of its nodes sum to exactly 100
RECURSIVE PlainTree(_, _, _)
PlainTree(id, ov, level) ==
    IF level > MaxLevel \/ id \notin IDs THEN TRUE
    ELSE IF TfcAlloys[id].Type = "base" \/ id = "steel" THEN TRUE
    ELSE IF TfcAlloys[id].Type = "final_steel" THEN FALSE
    ELSE IF ~IsSimpleAlloy(id) THEN TRUE
    ELSE LET toUse == PercentagesToUse(id, ov)
             ings  == TfcAlloys[id].Ingredients
         IN  /\ toUse.err = NoErr
             /\ Total(toUse.val) = Hundred
             /\ \A i \in 1..Len(ings) : PlainTree(ings[i].IngredientID, ov, level + 1)

\* a successful breakdown of a SIMPLE_ALLOY node at a positive quantity, in
\* which nothing is pruned
C2_Case ==
    /\ ret.op = "getBaseMaterialBreakdown"
    /\ IsSimpleAlloy(ret.id)
    /\ RLess(Zero, ret.amount)
    /\ ret.err = NoErr
    /\ NoPruning(ret.id, ret.amount, ret.before, ret.level)

\* C2 as stated: for every SIMPLE_ALLOY node and positive Q with no
\* ingredient's quantity under the pruning threshold, the values of the
\* breakdown sum to Q and none is negative.  The engine does not do this:
\* raw_blue_steel holds black_steel, a final_steel that costs its quantity
\* twice, and percentages summing to 100.005 pass the validator.
C2_SumsToQuantity ==
    C2_Case =>
        /\ Total(ret.val) = ret.amount
        /\ \A k \in Keys(ret.val) : RLeq(Zero, ret.val.kv[k])

\* C2 (amended): for every SIMPLE_ALLOY node and positive Q with no
\* ingredient's quantity, at any node of the expansion, under the pruning
\* threshold, no value of the breakdown is negative; the values sum to Q when
\* moreover the expansion reaches no final_steel node and the percentages in
\* use at each of its nodes sum to exactly 100.
C2_SumsToQuantityOfPlainTree ==
    C2_Case =>
        /\ \A k \in Keys(ret.val) : RLeq(Zero, ret.val.kv[k])
        /\ PlainTree(ret.id, ret.before, ret.level) => Total(ret.val) = ret.amount

\* raw_black_steel at 100 mB under an override of 70/15/15: three levels deep
C2_Witness ==
    /\ C2_Case
    /\ ret.id = "raw_black_steel"
    /\ ret.amount = F(100)
    /\ Has(ret.before, "raw_black_steel")
    /\ PlainTree(ret.id, ret.before, ret.level)
    /\ Cardinality(Keys(ret.val)) = 5
    /\ Total(ret.val) = F(100)

\* the calls of CalculateRequirements, of either file
IsCalculate == ret.op \in {"CalculateRequirements", "CalculateRequirementsV1"}

\* the breakdown, at top level, by the getBaseMaterialBreakdown of the file
\* the call of ret is from
BreakdownAtTop(id, q, ov) ==
    IF ret.op = "CalculateRequirementsV1"
    THEN getBaseMaterialBreakdownV1(id, q, ov, 0)
    ELSE getBaseMaterialBreakdown(id, q, ov, 0)

\* the converted quantity: amount in mB mode, amount x 100 in Ingots mode
Converted == IF ret.mode = "Ingots" THEN RMul(ret.amount, F(100)) ELSE ret.amount

\* C3: for a final_steel target, CalculateRequirements returns in both unit
\* modes the key-wise sum of the breakdown of the raw form and the breakdown
\* of the extra ingredient, each at the full converted quantity; the mB-mode
\* result of a final steel includes its extra ingredient.  The
\* CalculateRequirements of calculator.go breaks it: in mB mode it expands the
\* raw form alone.
C3_CompositeTargetIsKeywiseSum ==
    (IsCalculate /\ IsComposite(ret.id) /\ ret.err = NoErr) =>
        LET a == BreakdownAtTop(TfcAlloys[ret.id].RawFormID.String, Converted, percMap)
            b == BreakdownAtTop(TfcAlloys[ret.id].ExtraIngredientID.String, Converted,
                                percMap)
        IN  /\ a.err = NoErr
            /\ b.err = NoErr
            /\ IsKeywiseSum(ret.val, a.val, b.val)

\* the three faults of the arguments of CalculateRequirements
BadAmount == RLeq(ret.amount, Zero)
BadMode == ret.mode \notin {"mB", "Ingots"}
BadTarget == ret.id \notin IDs

NoResultMaps == ret.val = NilMap /\ ret.ingots = NilMap

\* C4 as stated: CalculateRequirements fails with "amount must be positive"
\* whenever amount <= 0, with an invalid-mode error whenever the unit is
\* neither "mB" nor "Ingots", and with a not-found error whenever the target
\* is unknown; in each case both result maps are nil.  With two faults at
\* once the call reports the first of them only.
C4_EachFaultHasItsError ==
    IsCalculate =>
        /\ BadAmount => ret.err = "amount must be positive"
        /\ BadMode => ret.err = "invalid mode"
        /\ BadTarget => ret.err = "not found"
        /\ (BadAmount \/ BadMode \/ BadTarget) => NoResultMaps

\* C4 (amended): the three checks are made in this order and the first that
\* fails decides the error: "amount must be positive" whenever amount <= 0,
\* an invalid-mode error whenever amount is positive and the unit is neither
\* "mB" nor "Ingots", a not-found error whenever amount is positive, the unit
\* is one of the two and the target is unknown; in each case both result maps
\* are nil.
C4_FirstFaultDecides ==
    IsCalculate =>
        /\ BadAmount => ret.err = "amount must be positive"
        /\ (~BadAmount /\ BadMode) => ret.err = "invalid mode"
        /\ (~BadAmount /\ ~BadMode /\ BadTarget) => ret.err = "not found"
        /\ (BadAmount \/ BadMode \/ BadTarget) => NoResultMaps

\* amount 0 in a wrong mode for an unknown target: the amount is reported
C4_Witness ==
    /\ ret.op = "CalculateRequirements"
    /\ ret.amount = Zero
    /\ BadMode
    /\ BadTarget
    /\ ret.err = "amount must be positive"
    /\ NoResultMaps

\* the ingredient identifiers of a material
IngredientIDs(id) ==
    {TfcAlloys[id].Ingredients[i].IngredientID : i \in 1..Len(TfcAlloys[id].Ingredients)}

\* the row of an ingredient of a material
IngredientOf(id, k) ==
    LET ings == TfcAlloys[id].Ingredients
    IN  ings[CHOOSE i \in 1..Len(ings) : ings[i].IngredientID = k]

\* a valid percentage map of a material: its keys are exactly the ingredients,
\* each value is within [Min - 0.001, Max + 0.001], the sum within 0.01 of 100
IsValidPerc(id, m) ==
    /\ Keys(m) = IngredientIDs(id)
    /\ \A k \in Keys(m) :
          /\ RLeq(RSub(IngredientOf(id, k).Min, <<1, 1000>>), m.kv[k])
          /\ RLeq(m.kv[k], RAdd(IngredientOf(id, k).Max, <<1, 1000>>))
    /\ RLeq(RAbs(RSub(Total(m), F(100))), <<1, 100>>)

\* the range midpoint of an ingredient
Midpoint(id, k) == RDiv(RAdd(IngredientOf(id, k).Min, IngredientOf(id, k).Max), F(2))

\* a user map with the default of every ingredient it leaves out
Completed(id, user) ==
    MapOf([k \in Keys(user) \cup IngredientIDs(id) |->
             IF k \in Keys(user) THEN user.kv[k]
             ELSE GetDefaultPercentages(id).val.kv[k]])

\* the identifier whose entry the top-level validation reads
TopID ==
    IF ret.id \in IDs /\ TfcAlloys[ret.id].Type = "final_steel"
    THEN TfcAlloys[ret.id].RawFormID.String
    ELSE ret.id

\* a call with sound arguments whose overrides hold, for the top-level
\* identifier, a non-empty entry that is invalid after completion
C5_Case ==
    /\ IsCalculate
    /\ ~BadAmount /\ ~BadMode /\ ~BadTarget
    /\ TopID \in IDs
    /\ Has(ret.before, TopID)
    /\ Len0(ret.before.kv[TopID]) > 0
    /\ ~IsValidPerc(TopID, Completed(TopID, ret.before.kv[TopID]))

\* C5: a non-empty entry for the top-level identifier (the raw form of a
\* final_steel target) that is still invalid after its missing ingredients
\* are filled with defaults makes the whole call fail with an
\* invalid-user-percentages error and no result maps; the call does not
\* compute with defaults.  The CalculateRequirements of part_000 breaks it:
\* its ResolvePercentagesForAlloy answers an invalid map with the defaults and
\* no error.
C5_InvalidTopLevelEntryFails ==
    C5_Case => (ret.err = "invalid user percentages" /\ NoResultMaps)

\* m is the expansion of the target at quantity q under the overrides ov: the
\* breakdown of the target, or for a final_steel target the key-wise sum of
\* the breakdowns of its two components
IsExpansionAt(m, id, q, ov) ==
    IF TfcAlloys[id].Type = "final_steel"
    THEN LET a == getBaseMaterialBreakdown(TfcAlloys[id].RawFormID.String, q, ov, 0)
             b == getBaseMaterialBreakdown(TfcAlloys[id].ExtraIngredientID.String, q, ov, 0)
         IN  a.err = NoErr /\ b.err = NoErr /\ IsKeywiseSum(m, a.val, b.val)
    ELSE LET need == getBaseMaterialBreakdown(id, q, ov, 0)
         IN  need.err = NoErr /\ m = need.val

\* C6: on success CalculateRequirements returns two maps with the same keys;
\* every Ingots value is the mB value of its key divided by 100, and the mB
\* values are those of the expansion at amount x 100 when the unit is Ingots
\* and at amount when the unit is mB.
C6_TwoUnits ==
    (ret.op = "CalculateRequirements" /\ ret.err = NoErr) =>
        /\ Keys(ret.ingots) = Keys(ret.val)
        /\ \A k \in Keys(ret.val) : RMul(ret.ingots.kv[k], F(100)) = ret.val.kv[k]
        /\ IsExpansionAt(ret.val, ret.id, Converted, percMap)

\* 100 Ingots of brass: 9000 and 1000 mB, 90 and 10 Ingots
C6_Witness ==
    /\ ret.op = "CalculateRequirements"
    /\ ret.id = "brass"
    /\ ret.amount = F(100)
    /\ ret.mode = "Ingots"
    /\ ret.err = NoErr
    /\ ret.val = MapOf("copper" :> F(9000) @@ "zinc" :> F(1000))
    /\ ret.ingots = MapOf("copper" :> F(90) @@ "zinc" :> F(10))

-----------------------------------------------------------------------------
(* The properties of the percentage functions *)

\* a known material that has at least one ingredient
HasIngredients(id) == id \in IDs /\ Len(TfcAlloys[id].Ingredients) > 0

C8_Case ==
    /\ ret.op \in {"ValidatePercentages", "ValidatePercentagesV1"}
    /\ ret.id = "brass"
    /\ Keys(ret.perc) = {"copper", "zinc"}
    /\ RAdd(ret.perc.kv["copper"], ret.perc.kv["zinc"]) = F(100)

\* every value of the map of ret is within [Min - slack, Max + slack]
WithinRanges(slack) ==
    \A k \in Keys(ret.perc) :
        /\ RLeq(RSub(IngredientOf(ret.id, k).Min, slack), ret.perc.kv[k])
        /\ RLeq(ret.perc.kv[k], RAdd(IngredientOf(ret.id, k).Max, slack))

MidpointSum(id) == Total(MapOf([k \in IngredientIDs(id) |-> Midpoint(id, k)]))

\* C9: for every material with at least one ingredient the percentages of
\* GetDefaultPercentages sum to within 0.01 of 100, whatever the ranges; when
\* the midpoints sum to 100 the defaults are exactly the midpoints.
C9_DefaultsSumTo100 ==
    (ret.op = "GetDefaultPercentages" /\ HasIngredients(ret.id)) =>
        /\ ret.err = NoErr
        /\ RLeq(RAbs(RSub(Total(ret.val), F(100))), <<1, 100>>)
        /\ MidpointSum(ret.id) = F(100) =>
              /\ Keys(ret.val) = IngredientIDs(ret.id)
              /\ \A k \in Keys(ret.val) : ret.val.kv[k] = Midpoint(ret.id, k)

\* bismuth_bronze: the midpoints sum to 97.5, zinc goes from 25 to 27.5
C9_Witness ==
    /\ ret.op = "GetDefaultPercentages"
    /\ ret.id = "bismuth_bronze"
    /\ MidpointSum(ret.id) = <<195, 2>>
    /\ ret.val = MapOf("zinc" :> <<55, 2>> @@ "copper" :> <<115, 2>>
                        @@ "bismuth" :> F(15))

\* C10: for every known material, ResolvePercentagesForAlloy called with an
\* empty user map (nil, or non-nil with no entries) returns exactly the map
\* of GetDefaultPercentages for that material, and no error.
C10_EmptyResolvesToDefaults ==
    (ret.op = "ResolvePercentagesForAlloy" /\ ret.id \in IDs /\ Len0(ret.perc) = 0) =>
        /\ ret.err = NoErr
        /\ ret.val = GetDefaultPercentages(ret.id).val

\* brass with a non-nil map of no entries: 90 and 10
C10_Witness ==
    /\ ret.op = "ResolvePercentagesForAlloy"
    /\ ret.id = "brass"
    /\ ret.perc = MakeMap
    /\ ret.err = NoErr
    /\ ret.val = MapOf("copper" :> F(90) @@ "zinc" :> F(10))


\* a call of ResolvePercentagesForAlloy for a known material with a non-empty
\* user map
ResolveNonEmpty ==
    /\ ret.op = "ResolvePercentagesForAlloy"
    /\ ret.id \in IDs
    /\ Len0(ret.perc) > 0

\* C11: for every non-empty user map whose completion (the user's values and
\* the default of each ingredient left out) passes the validation,
\* ResolvePercentagesForAlloy returns exactly that completion: every value
\* the user supplied is returned unchanged.
C11_ValidCompletionIsReturned ==
    (ResolveNonEmpty /\ IsValidPerc(ret.id, Completed(ret.id, ret.perc))) =>
        /\ ret.err = NoErr
        /\ ret.val = Completed(ret.id, ret.perc)
        /\ \A k \in Keys(ret.perc) : Has(ret.val, k) /\ ret.val.kv[k] = ret.perc.kv[k]

\* brass with copper 90.005 alone: zinc is filled with its default 10
C11_Witness ==
    /\ ResolveNonEmpty
    /\ ret.id = "brass"
    /\ ret.perc = MapOf("copper" :> <<18001, 200>>)
    /\ ret.err = NoErr
    /\ ret.val = MapOf("copper" :> <<18001, 200>> @@ "zinc" :> F(10))

\* C12: for every non-empty user map whose completion with defaults is
\* invalid, ResolvePercentagesForAlloy returns no error and exactly the
\* default percentages of the material; no value of the user map survives.
C12_InvalidCompletionGivesDefaults ==
    (ResolveNonEmpty /\ ~IsValidPerc(ret.id, Completed(ret.id, ret.perc))) =>
        /\ ret.err = NoErr
        /\ ret.val = GetDefaultPercentages(ret.id).val

\* brass with copper 92 alone: the filled sum is 102, the result is 90 and 10
C12_Witness ==
    /\ ResolveNonEmpty
    /\ ret.id = "brass"
    /\ ret.perc = MapOf("copper" :> F(92))
    /\ Total(Completed(ret.id, ret.perc)) = F(102)
    /\ ret.err = NoErr
    /\ ret.val = MapOf("copper" :> F(90) @@ "zinc" :> F(10))


-----------------------------------------------------------------------------
(* More properties of the engine *)

\* C13: for every base material id, every quantity Q, every overrides map and
\* every depth not above 20, getBaseMaterialBreakdown returns exactly the
\* one-entry map {id: Q} and no error.
C13_BaseIsItself ==
    (ret.op = "getBaseMaterialBreakdown" /\ ret.id \in IDs
        /\ TfcAlloys[ret.id].Type = "base" /\ ret.level <= MaxLevel) =>
        /\ ret.err = NoErr
        /\ ret.val = MapOf(ret.id :> ret.amount)

\* copper at depth 20 under overrides that name brass: {copper: 100}
C13_Witness ==
    /\ ret.op = "getBaseMaterialBreakdown"
    /\ ret.id = "copper"
    /\ ret.level = MaxLevel
    /\ ret.amount = F(100)
    /\ Has(ret.before, "brass")
    /\ ret.err = NoErr
    /\ ret.val = MapOf("copper" :> F(100))


\* C14: every entry of the result maps of a successful CalculateRequirements
\* call has an mB value strictly above the negligible threshold 0.001, for
\* every target, amount and unit: entries at or below it are filtered out.
\* The CalculateRequirements of part_000 breaks it: it has no such filter.
C14_ReportedAboveThreshold ==
    (IsCalculate /\ ret.err = NoErr) =>
        \A k \in Keys(ret.val) \cup Keys(ret.ingots) :
            Has(ret.val, k) /\ RLess(<<1, 1000>>, ret.val.kv[k])


\* the percentage in use for steel in raw_black_steel under the overrides of
\* the call
SteelShare == PercentagesToUse("raw_black_steel", ret.before).val.kv["steel"]

\* C15: expanding steel at quantity Q yields exactly the expansion of
\* pig_iron at Q, one level deeper, whatever the overrides hold (an override
\* keyed by steel is never consulted); so an alloy that lists steel at p
\* percent (raw_black_steel, whose other ingredients hold no pig_iron) gets
\* Q x p / 100 of pig_iron, when that quantity is not pruned.
C15_SteelIsPigIron ==
    /\ (ret.op = "getBaseMaterialBreakdown" /\ ret.id = "steel") =>
          LET p == getBaseMaterialBreakdown("pig_iron", ret.amount, ret.before,
                                            ret.level + 1)
          IN  /\ ret.err = p.err
              /\ ret.val = p.val
              /\ ret.level < MaxLevel =>
                    (ret.err = NoErr /\ ret.val = MapOf("pig_iron" :> ret.amount))
    /\ (ret.op = "getBaseMaterialBreakdown" /\ ret.id = "raw_black_steel"
           /\ ret.level = 0
           /\ ~RLess(RDiv(RMul(ret.amount, SteelShare), F(100)), <<1, 1000>>)) =>
          /\ ret.err = NoErr
          /\ Has(ret.val, "pig_iron")
          /\ ret.val.kv["pig_iron"] = RDiv(RMul(ret.amount, SteelShare), F(100))

\* steel at 100 mB under an override keyed by steel: {pig_iron: 100}
C15_Witness ==
    /\ ret.op = "getBaseMaterialBreakdown"
    /\ ret.id = "steel"
    /\ ret.amount = F(100)
    /\ Has(ret.before, "steel")
    /\ ret.err = NoErr
    /\ ret.val = MapOf("pig_iron" :> F(100))


\* the calls of getBaseMaterialBreakdown, of either file
IsBreakdown == ret.op \in {"getBaseMaterialBreakdown", "getBaseMaterialBreakdownV1"}

\* the materials that lie on a cycle of the ingredient/component graph
CyclicIDs == {"loop_a", "loop_b", "ring_steel"}

DepthExceeded == ret.err = "maximum recursion depth exceeded" /\ ret.val = NilMap

\* C16: on every catalog, one with a cycle included, every call of
\* getBaseMaterialBreakdown terminates: an invocation entered with
\* level > 20 does no catalog lookup and no recursion (it fails before it
\* would find its identifier unknown), and a dependency chain that reaches
\* level 21 makes the whole call fail with the maximum-recursion-depth error.
C16_DepthGuard ==
    IsBreakdown =>
        /\ ret.level > MaxLevel => DepthExceeded
        /\ (ret.id \in CyclicIDs /\ ret.level <= MaxLevel
               /\ ~RLess(ret.amount, <<1, 1000>>)) => DepthExceeded

\* ring_steel at level 0: the chain of its raw form, itself, reaches level 21
C16_Witness ==
    /\ ret.op = "getBaseMaterialBreakdown"
    /\ ret.id = "ring_steel"
    /\ ret.level = 0
    /\ ret.amount = F(100)
    /\ DepthExceeded


\* C17: a call of CalculateRequirements leaves the caller's overrides map with
\* the keys it had, and with every entry it had except, at most, the one under
\* the identifier validated at top level (the raw form for a final steel);
\* that entry changes only if it was there and was not empty, and a nil map
\* stays nil.  A call of getBaseMaterialBreakdown, with the calls of
\* ResolvePercentagesForAlloy it makes on the entries, leaves the map as it was.
C17_OverridesFrame ==
    /\ IsCalculate =>
          /\ percMap.nil = ret.before.nil
          /\ Keys(percMap) = Keys(ret.before)
          /\ \A k \in Keys(ret.before) :
                k # TopID => percMap.kv[k] = ret.before.kv[k]
          /\ (~Has(ret.before, TopID) \/ Len0(ret.before.kv[TopID]) = 0) =>
                percMap = ret.before
    /\ IsBreakdown => percMap = ret.before

\* black_steel under overrides for raw_black_steel and black_steel: the entry
\* of the raw form is completed with the default of black_bronze, the other
\* entry stays
C17_Witness ==
    /\ ret.op = "CalculateRequirements"
    /\ ret.id = "black_steel"
    /\ Keys(ret.before) = {"raw_black_steel", "black_steel"}
    /\ Len0(ret.before.kv["raw_black_steel"]) = 2
    /\ Len0(percMap.kv["raw_black_steel"]) = 3
    /\ percMap.kv["black_steel"] = ret.before.kv["black_steel"]


\* the overrides map without the entry of one identifier
Without(m, id) ==
    IF m.nil THEN m ELSE MapOf([k \in Keys(m) \ {id} |-> m.kv[k]])

\* a call of CalculateRequirements with a sound amount and unit on a final
\* steel whose raw form is another material
C20_Case ==
    /\ ret.op = "CalculateRequirements"
    /\ ~BadAmount /\ ~BadMode
    /\ IsComposite(ret.id)
    /\ TopID \in IDs
    /\ TopID # ret.id

\* C20: when the target of CalculateRequirements is a final steel, the entry
\* of the overrides that is validated at top level and applied is the one
\* keyed by its raw form: a valid entry is stored completed under that key
\* and the result is the sum of the raw form expanded under it and of the
\* extra ingredient.  The entry keyed by the final steel itself is neither
\* validated nor used: it stays as it was, and the call returns what it
\* returns without that entry.
C20_RawFormEntryDecides ==
    C20_Case =>
        LET own   == ret.id
            bare  == Without(ret.before, own)
            r     == CalculateRequirements(own, ret.amount, ret.mode, bare)
            entry == ret.before.kv[TopID]
            full  == Completed(TopID, entry)
            ov    == Put(bare, TopID, full)
            a     == getBaseMaterialBreakdown(TopID, Converted, ov, 0)
            b     == getBaseMaterialBreakdown(TfcAlloys[own].ExtraIngredientID.String,
                                              Converted, ov, 0)
        IN  /\ ret.val = r.mb /\ ret.ingots = r.ingots /\ ret.err = r.err
            /\ Has(ret.before, own) =>
                  Has(percMap, own) /\ percMap.kv[own] = ret.before.kv[own]
            /\ (Has(ret.before, TopID) /\ Len0(entry) > 0 /\ IsValidPerc(TopID, full)) =>
                  /\ percMap.kv[TopID] = full
                  /\ ret.err = NoErr
                  /\ IsKeywiseSum(ret.val, a.val, b.val)

\* black_steel at 100 mB under a complete entry for raw_black_steel (steel 70)
\* and an entry for black_steel that asks for steel 50: pig_iron is 70 + 100
C20_Witness ==
    /\ C20_Case
    /\ ret.id = "black_steel"
    /\ ret.amount = F(100) /\ ret.mode = "mB"
    /\ Has(ret.before, "black_steel")
    /\ Has(ret.before, "raw_black_steel")
    /\ ret.before.kv["raw_black_steel"].kv["steel"] = F(70)
    /\ ret.err = NoErr
    /\ ret.val.kv["pig_iron"] = F(170)
    /\ ret.val.kv["nickel"] = F(15)


-----------------------------------------------------------------------------
(* The properties of the catalog *)

\* the record the database holds for an identifier: its row of alloys with
\* its rows of ingredients
DbRecord(id) ==
    [ID |-> AlloysTable[id].id, Type |-> AlloysTable[id].type,
     RawFormID |-> AlloysTable[id].raw_form_id,
     ExtraIngredientID |-> AlloysTable[id].extra_ingredient_id,
     Ingredients |-> IngredientsTable[id]]

\* goroutine g has returned from a call of op
Returned(g, op) == goroutine[g].op = op /\ goroutine[g].pc = "done"

\* C18: whatever catalog calls came before, single lookups that filled the
\* cache among them, the map dbGetAllAlloys returns holds every row of the
\* table alloys.  dbGetAllAlloys breaks it: as soon as the cache holds one
\* entry it returns the cache.
C18_GetAllReturnsEveryRow ==
    \A g \in Goroutines :
        Returned(g, "dbGetAllAlloys") => Keys(goroutine[g].result) = DbIDs

\* the places where a goroutine reads alloyCache, and where it writes it
ReadsCache(g) == goroutine[g].pc \in {"get_lookup", "all_len"}

WritesCache(g) == goroutine[g].pc \in {"get_store", "all_store"}

-----------------------------------------------------------------------------
(* The overrides across the expansion tree *)

\* the percentage split of a node: its entry of the overrides, completed, when
\* it has a non-empty one, and its defaults otherwise
SplitOf(id, ov) ==
    IF Has(ov, id) /\ Len0(ov.kv[id]) > 0
    THEN Completed(id, ov.kv[id])
    ELSE GetDefaultPercentages(id).val

\* every non-empty entry the overrides hold for a material with ingredients is
\* valid once completed
ValidOverrides(ov) ==
    \A id \in Keys(ov) :
        (IsSimpleAlloy(id) /\ Len0(ov.kv[id]) > 0) =>
            IsValidPerc(id, Completed(id, ov.kv[id]))

\* the key-wise sum of two maps
KeySum(a, b) == MapOf([k \in Keys(a) \cup Keys(b) |-> RAdd(Qty(a, k), Qty(b, k))])

\* the expansion tree of (id, q) in which every node takes the split SplitOf
\* gives its identifier, wherever in the tree it stands
RECURSIVE TreeOf(_, _, _, _)
RECURSIVE TreeLoop(_, _, _, _, _, _)

TreeLoop(ings, i, q, split, ov, level) ==
    IF i > Len(ings) THEN MakeMap
    ELSE LET req  == RDiv(RMul(q, Qty(split, ings[i].IngredientID)), F(100))
             rest == TreeLoop(ings, i + 1, q, split, ov, level)
         IN  IF RLess(req, <<1, 1000>>) THEN rest
             ELSE KeySum(TreeOf(ings[i].IngredientID, req, ov, level + 1), rest)

TreeOf(id, q, ov, level) ==
    IF level > MaxLevel \/ id \notin IDs THEN MakeMap
    ELSE IF TfcAlloys[id].Type = "base" THEN MapOf(id :> q)
    ELSE IF id = "steel" THEN TreeOf("pig_iron", q, ov, level + 1)
    ELSE IF TfcAlloys[id].Type = "final_steel"
         THEN KeySum(TreeOf(TfcAlloys[id].RawFormID.String, q, ov, level + 1),
                     TreeOf(TfcAlloys[id].ExtraIngredientID.String, q, ov, level + 1))
    ELSE IF IsSimpleAlloy(id)
         THEN TreeLoop(TfcAlloys[id].Ingredients, 1, q, SplitOf(id, ov), ov, level)
    ELSE MakeMap

\* C21: a valid entry of the overrides keyed by X gives the split of X at
\* every node X of the expansion tree, at any depth and under both components
\* of a final steel, and of no other node; a node without an entry takes its
\* defaults.  Every successful breakdown under valid overrides is the tree in
\* which each node's split depends on its identifier alone.
C21_OverridesAreGlobal ==
    (IsBreakdown /\ ret.err = NoErr /\ ValidOverrides(ret.before)) =>
        ret.val = TreeOf(ret.id, ret.amount, ret.before, ret.level)

\* blue_steel at 100 mB under a valid entry for black_bronze, which stands at
\* depth 3 under the raw form and at depth 2 under the extra ingredient: gold
\* is 15% of black_bronze at either place, 100 x 0.525 x 0.2 x 0.15 under the
\* first and 100 x 0.2 x 0.15 under the second
C21_Witness ==
    /\ ret.op = "getBaseMaterialBreakdown"
    /\ ret.id = "blue_steel"
    /\ ret.amount = F(100)
    /\ ret.level = 0
    /\ ret.before = One("black_bronze",
                        MapOf("copper" :> F(70) @@ "silver" :> F(15) @@ "gold" :> F(15)))
    /\ ret.err = NoErr
    /\ ret.val.kv["gold"] = RAdd(<<63, 40>>, F(3))


\* CalculateRequirements of the file the call of ret is from
CalculateAgain(id, amount, mode, ov) ==
    IF ret.op = "CalculateRequirementsV1"
    THEN CalculateRequirementsV1(id, amount, mode, ov)
    ELSE CalculateRequirements(id, amount, mode, ov)

\* the entries of the overrides that are invalid, for a material with
\* ingredients other than the one validated at top level
NestedInvalid(ov) ==
    {id \in Keys(ov) :
        /\ id # TopID
        /\ IsSimpleAlloy(id)
        /\ ~IsValidPerc(id, Completed(id, ov.kv[id]))}

\* C22: an invalid entry of the overrides for an alloy that stands only below
\* the top level is never reported: CalculateRequirements returns exactly what
\* it returns without the entry, its error (none, when the call without the
\* entry succeeds) and its two maps.
C22_NestedInvalidIsRecovered ==
    (IsCalculate /\ ~BadAmount /\ ~BadMode /\ ~BadTarget) =>
        \A id \in NestedInvalid(ret.before) :
            LET r == CalculateAgain(ret.id, ret.amount, ret.mode, Without(ret.before, id))
            IN  /\ ret.err = r.err
                /\ ret.val = r.mb
                /\ ret.ingots = r.ingots

\* blue_steel under a valid entry for its raw form and the entry copper 90 for
\* black_bronze, three levels down, whose range for copper is [50, 70]
C22_Witness ==
    /\ ret.op = "CalculateRequirements"
    /\ ret.id = "blue_steel"
    /\ ret.amount = F(100) /\ ret.mode = "mB"
    /\ NestedInvalid(ret.before) = {"black_bronze"}
    /\ ret.err = NoErr
    /\ ret.val.kv["gold"] = RAdd(RMul(F(55), <<35, 1000>>), <<7, 2>>)


-----------------------------------------------------------------------------
(* Pruning *)

\* getBaseMaterialBreakdown and percentagesToUse of the file the call of ret
\* is from
BreakdownBy(id, q, ov, level) ==
    IF ret.op \in {"getBaseMaterialBreakdownV1", "CalculateRequirementsV1"}
    THEN getBaseMaterialBreakdownV1(id, q, ov, level)
    ELSE getBaseMaterialBreakdown(id, q, ov, level)

InUse(id, ov) ==
    IF ret.op \in {"getBaseMaterialBreakdownV1", "CalculateRequirementsV1"}
    THEN PercentagesToUseV1(id, TfcAlloys[id], ov)
    ELSE PercentagesToUse(id, ov)

\* the key-wise sum of the maps f[i], i in S
RECURSIVE KeySumOver(_, _)
KeySumOver(f, S) ==
    IF S = {} THEN MakeMap
    ELSE LET i == CHOOSE x \in S : TRUE
         IN  KeySum(f[i], KeySumOver(f, S \ {i}))

\* a breakdown of a material with an ingredient list, entered within the depth
\* bound, whose percentages in use hold every ingredient
C23_Case ==
    /\ IsBreakdown
    /\ IsSimpleAlloy(ret.id) /\ ret.id # "steel"
    /\ ret.level <= MaxLevel
    /\ InUse(ret.id, ret.before).err = NoErr
    /\ IngredientIDs(ret.id) \subseteq Keys(InUse(ret.id, ret.before).val)

\* C23: in the expansion of a material with ingredients at quantity Q, an
\* ingredient whose required quantity Q x percentage / 100 is below 0.001 is
\* not expanded (its expansion cannot fail the call) and gives the result no
\* key and no quantity; every ingredient whose required quantity is at least
\* 0.001 is expanded with that quantity one level deeper, and the result is
\* the key-wise sum of these expansions.
C23_PruneBelowThreshold ==
    C23_Case =>
        LET ings  == TfcAlloys[ret.id].Ingredients
            toUse == InUse(ret.id, ret.before).val
            req   == [i \in 1..Len(ings) |->
                        RDiv(RMul(ret.amount, toUse.kv[ings[i].IngredientID]), F(100))]
            kept  == {i \in 1..Len(ings) : ~RLess(req[i], <<1, 1000>>)}
            sub   == [i \in kept |->
                        BreakdownBy(ings[i].IngredientID, req[i], ret.before, ret.level + 1)]
        IN  /\ ret.err = NoErr <=> \A i \in kept : sub[i].err = NoErr
            /\ ret.err = NoErr =>
                  ret.val = KeySumOver([i \in kept |-> sub[i].val], kept)

\* ghost_alloy at 0.0005 mB: both ingredients need 0.00025 mB, so the unknown
\* ingredient ghost is never looked up and the call succeeds with an empty map
C23_Witness ==
    /\ ret.op = "getBaseMaterialBreakdown"
    /\ ret.id = "ghost_alloy"
    /\ ret.amount = <<1, 2000>>
    /\ ret.level = 0
    /\ ret.err = NoErr
    /\ Keys(ret.val) = {}


-----------------------------------------------------------------------------
(* More properties of the percentage functions *)

\* the first ingredient of a material in declaration order
FirstIngredient(id) == TfcAlloys[id].Ingredients[1].IngredientID

\* the midpoints of a material sum to more than 0.01 away from 100
MidpointsOff(id) == RLess(<<1, 100>>, RAbs(RSub(MidpointSum(id), F(100))))

-----------------------------------------------------------------------------
(* Failures inside the expansion *)

\* the expansion of (id, q) entered at a level meets a failure: the depth
\* bound, an identifier the catalog does not hold, a final steel without one
\* of its components, a type the engine does not handle, or percentages in
\* use that cannot be had, at a node that is not pruned
RECURSIVE Fails(_, _, _, _)
Fails(id, q, ov, level) ==
    IF level > MaxLevel \/ id \notin IDs THEN TRUE
    ELSE IF TfcAlloys[id].Type = "base" THEN FALSE
    ELSE IF id = "steel" THEN Fails("pig_iron", q, ov, level + 1)
    ELSE IF TfcAlloys[id].Type = "final_steel"
         THEN \/ ~TfcAlloys[id].RawFormID.Valid
              \/ ~TfcAlloys[id].ExtraIngredientID.Valid
              \/ Fails(TfcAlloys[id].RawFormID.String, q, ov, level + 1)
              \/ Fails(TfcAlloys[id].ExtraIngredientID.String, q, ov, level + 1)
    ELSE IF TfcAlloys[id].Type \notin {"alloy", "raw_steel", "processed"} THEN TRUE
    ELSE IF Len(TfcAlloys[id].Ingredients) = 0 THEN FALSE
    ELSE LET toUse == InUse(id, ov)
             ings  == TfcAlloys[id].Ingredients
         IN  \/ toUse.err # NoErr
             \/ \E i \in 1..Len(ings) :
                   LET req == RDiv(RMul(q, Qty(toUse.val, ings[i].IngredientID)), F(100))
                   IN  /\ ~RLess(req, <<1, 1000>>)
                       /\ Fails(ings[i].IngredientID, req, ov, level + 1)

\* the expansion CalculateRequirements starts, for a call with sound
\* arguments that passes the top-level validation, meets a failure
FailsAtTop ==
    IF TfcAlloys[ret.id].Type = "final_steel"
    THEN \/ ~IsComposite(ret.id)
         \/ Fails(TfcAlloys[ret.id].RawFormID.String, Converted, percMap, 0)
         \/ Fails(TfcAlloys[ret.id].ExtraIngredientID.String, Converted, percMap, 0)
    ELSE Fails(ret.id, Converted, percMap, 0)

\* C25: when the expansion meets a failure anywhere, getBaseMaterialBreakdown
\* returns an error and a nil map, and CalculateRequirements an error and two
\* nil maps; an error never comes with a map, so a breakdown that leaves the
\* failed branch out is never returned.  The CalculateRequirements of
\* calculator.go breaks it: in mB mode it expands the raw form of a final
\* steel alone, and neither a missing extra ingredient nor a failure under
\* the extra ingredient fails the call.
C25_FailurePropagates ==
    /\ IsBreakdown =>
          /\ Fails(ret.id, ret.amount, ret.before, ret.level) => ret.err # NoErr
          /\ ret.err # NoErr => ret.val = NilMap
    /\ IsCalculate =>
          /\ (~BadAmount /\ ~BadMode /\ ~BadTarget /\ FailsAtTop) => ret.err # NoErr
          /\ ret.err # NoErr => NoResultMaps


-----------------------------------------------------------------------------
(* The properties of sumMaterials *)

IsSum == ret.op \in {"sumMaterials", "sumMaterialsV1"}

\* sumMaterials of the file the call of ret is from
SumBy(m1, m2) ==
    IF ret.op = "sumMaterialsV1" THEN sumMaterialsV1(m1, m2) ELSE sumMaterials(m1, m2)

\* the value a map holds at a key, 0 for a key it does not hold
ValueAt(m, k) == IF k \in Keys(m) THEN m.kv[k] ELSE Zero

\* the result is a new map over the union of the keys, and it is the same
\* with the arguments exchanged
UnionOfKeys ==
    /\ ~ret.val.nil
    /\ Keys(ret.val) = Keys(ret.m1) \cup Keys(ret.m2)
    /\ ret.val = SumBy(ret.m2, ret.m1)

\* no addition of sumMaterials(a, b) is rounded
Unrounded(a, b) ==
    \A k \in Keys(a) \cup Keys(b) :
        FAdd(ValueAt(a, k), ValueAt(b, k)) = ExactAdd(ValueAt(a, k), ValueAt(b, k))

\* C26 as stated: sumMaterials(m1, m2) is a new map over the union of the
\* keys of m1 and m2 that holds at each key the sum of the two values, an
\* absent key counting as 0; it is commutative and associative.  The sum of
\* float64 is rounded, and associativity fails with it: with a = 2^53 in m1
\* and a = 1 in m2 and in m3, (m1 + m2) + m3 holds 2^53 and m1 + (m2 + m3)
\* holds 2^53 + 2.
C26_SumIsAssociative ==
    IsSum =>
        /\ UnionOfKeys
        /\ \A k \in Keys(ret.val) :
              ret.val.kv[k] = ExactAdd(ValueAt(ret.m1, k), ValueAt(ret.m2, k))
        /\ \A m3 \in MaterialMaps :
              SumBy(ret.val, m3) = SumBy(ret.m1, SumBy(ret.m2, m3))

\* C26, amended: the value at each key is the float64 sum of the two values,
\* which is their sum whenever that is a float64; sumMaterials is commutative,
\* and it is associative on three maps whenever none of the additions on
\* either side is rounded.
C26_SumOfMaps ==
    IsSum =>
        /\ UnionOfKeys
        /\ \A k \in Keys(ret.val) :
              /\ ret.val.kv[k] = FAdd(ValueAt(ret.m1, k), ValueAt(ret.m2, k))
              /\ Unrounded(ret.m1, ret.m2) =>
                    ret.val.kv[k] = ExactAdd(ValueAt(ret.m1, k), ValueAt(ret.m2, k))
        /\ \A m3 \in MaterialMaps :
              (/\ Unrounded(ret.m1, ret.m2)
               /\ Unrounded(ret.val, m3)
               /\ Unrounded(ret.m2, m3)
               /\ Unrounded(ret.m1, SumBy(ret.m2, m3))) =>
                  SumBy(ret.val, m3) = SumBy(ret.m1, SumBy(ret.m2, m3))

\* the call of TestSumMaterials: {a: 10, b: 5} and {b: 2.5, c: 7.5}
C26_Witness ==
    /\ ret.op = "sumMaterials"
    /\ ret.m1 = MapOf("a" :> F(10) @@ "b" :> F(5))
    /\ ret.m2 = MapOf("b" :> <<5, 2>> @@ "c" :> <<15, 2>>)
    /\ ret.val = MapOf("a" :> F(10) @@ "b" :> <<15, 2>> @@ "c" :> <<15, 2>>)


-----------------------------------------------------------------------------
(* The overrides map of a failed call *)

\* C27: whenever CalculateRequirements returns an error, the overrides map
\* of the caller is as it was passed in.  Both files store the completed
\* top-level entry before they expand the target, so a call that fails in
\* the expansion returns its error with the map already rewritten.
C27_FailedCallLeavesOverrides ==
    (IsCalculate /\ ret.err # NoErr) => percMap = ret.before


-----------------------------------------------------------------------------
(* The defaults and the ranges *)

\* every ingredient of a material has 0 <= Min <= Max <= 100
RangesWellFormed(id) ==
    \A k \in IngredientIDs(id) :
        /\ RLeq(Zero, IngredientOf(id, k).Min)
        /\ RLeq(IngredientOf(id, k).Min, IngredientOf(id, k).Max)
        /\ RLeq(IngredientOf(id, k).Max, Hundred)

\* ValidatePercentages of the file the call of ret is from
ValidateBy(id, m) ==
    IF ret.op = "GetDefaultPercentagesV1"
    THEN ValidatePercentagesV1(id, m)
    ELSE ValidatePercentages(id, m)

\* C28: for a material whose ranges are well formed, every percentage that
\* GetDefaultPercentages returns, the adjusted first one included, lies within
\* [Min, Max] of its ingredient, and the defaults pass ValidatePercentages.
\* The first ingredient takes the whole of 100 - (sum of the midpoints),
\* whatever its range: ranges [0, 10] and [0, 10] give it 95.
C28_DefaultsWithinRanges ==
    (ret.op \in {"GetDefaultPercentages", "GetDefaultPercentagesV1"}
        /\ HasIngredients(ret.id) /\ RangesWellFormed(ret.id)) =>
        /\ ret.err = NoErr
        /\ \A k \in IngredientIDs(ret.id) :
              /\ RLeq(IngredientOf(ret.id, k).Min, ret.val.kv[k])
              /\ RLeq(ret.val.kv[k], IngredientOf(ret.id, k).Max)
        /\ ValidateBy(ret.id, ret.val).ok


-----------------------------------------------------------------------------
(* A call repeated *)

\* the entries of the overrides that the call of ret has rewritten
Rewritten == {id \in Keys(percMap) : ~Has(ret.before, id) \/ ret.before.kv[id] # percMap.kv[id]}

\* C29: a second call of CalculateRequirements with the same target, amount
\* and unit and with the overrides map as the first call has left it returns
\* what the first call returned and leaves the overrides as they are: the
\* entry the first call has stored is resolved to itself.
C29_SecondCallIsTheSame ==
    IsCalculate =>
        LET again == CalculateAgain(ret.id, ret.amount, ret.mode, percMap)
        IN  /\ again.err = ret.err
            /\ again.mb = ret.val
            /\ again.ingots = ret.ingots
            /\ again.allUserPerc = percMap
            /\ \A id \in Rewritten :
                  /\ ResolvePercentagesForAlloy(id, percMap.kv[id]).err = NoErr
                  /\ ResolvePercentagesForAlloy(id, percMap.kv[id]).val = percMap.kv[id]

\* brass with zinc 10 alone: the first call has stored copper 90 and zinc 10
C29_Witness ==
    /\ ret.op = "CalculateRequirements"
    /\ ret.id = "brass"
    /\ ret.err = NoErr
    /\ ret.before = One("brass", MapOf("zinc" :> F(10)))
    /\ percMap = One("brass", MapOf("copper" :> F(90) @@ "zinc" :> F(10)))
    /\ Rewritten = {"brass"}


-----------------------------------------------------------------------------
(* The properties of InitDB *)

\* C30: after any sequence of calls of InitDB, whenever InitDB has returned
\* a nil error the handle has been opened and pinged and the cache map has
\* been made, so no lookup writes to a nil cache (or queries a nil handle);
\* a call after a failed first call does not report success.  The error is
\* a variable of each call and initOnce runs the body once: the second call
\* returns nil with db and alloyCache as the failed first call left them.
C30_NilErrorMeansInitialised ==
    /\ initErr = NoErr => (db = "pinged" /\ ~alloyCache.nil)
    /\ \A g \in Goroutines :
          /\ goroutine[g].pc \in {"get_store", "all_store"} => ~alloyCache.nil
          /\ goroutine[g].pc # "panic"

=========================================================================
